---- MODULE Spec2Model ----
(***************************************************************************)
(* A Chord node: the node store (chord-core/src/node/store.rs) and the     *)
(* protocol operations of NodeService (chord/src/service/mod.rs).          *)
(*                                                                         *)
(* One node is modelled.  Its peers are the environment: every remote call *)
(* is answered by an arbitrary reply of the call's type (a value or one of *)
(* the client errors).  A Node is modelled by its id: the address of a     *)
(* node is a function of its id (id = hash(addr)) and Node equality is by  *)
(* id.  Option<Node> is a sequence of length 0 or 1.                       *)
(*                                                                         *)
(* An operation is a task that runs from its call to "done"; its steps are *)
(* cut at the store accesses and at the awaits of the code, and labelled   *)
(* with the line of service/mod.rs the task is about to run.               *)
(***************************************************************************)
EXTENDS Integers, Sequences, FiniteSets, TLC

\* Width of the identifier space in bits (64 in the program, scaled down).
M == 3
\* Longest successor list a remote peer answers with.
MaxList == 2
\* The replication factor the node is constructed with (NodeService::new).
replication_factor == 2

\* The stabilize calls each node of the two-node ring makes.
MaxStabilize == 3
\* The tasks that ask the client pool for clients, and the calls each makes.
NumCallers == 3
MaxCalls == 2

RECURSIVE Pow2(_)
Pow2(n) == IF n = 0 THEN 1 ELSE 2 * Pow2(n - 1)

RingSize == Pow2(M)
\* Every identifier (the keys that are looked up).
Ids == 0 .. (RingSize - 1)
\* The nodes of the ring: this node is one of them, the others are its peers.
NodeIds == {0, 2, 3}
\* One operation at a time.
SeqTasks == {"seq"}

VARIABLES
    id,              \* NodeService.id
    predecessor,     \* State.predecessor : Option<Node>
    finger_table,    \* State.finger_table : Vec<Finger>
    successor_list,  \* State.successor_list : Vec<Node>
    clients,         \* NodeService.clients: the nodes the pool holds a client for
    task,            \* the operation in flight: its position, locals and result
    ring,            \* the two-node ring: both nodes' stores and stabilize calls
    pool,            \* ClientsPool: its map, and the tasks inside get_or_init
    server,          \* Server::new and the maintenance loops it starts
    conns,           \* Server::run: the connections accepted, and the semaphore
    mutex,           \* the store's mutex: its holder, and the calls inside Db
    arc,             \* the ring predicates applied to identifiers
    wire             \* an IpAddress on the wire, and what became of it

vars == <<id, predecessor, finger_table, successor_list, clients, task, ring, pool,
          server, conns, mutex, arc, wire>>
store == <<predecessor, finger_table, successor_list>>
\* What the steps of the single node's operations never touch.
elsewhere == <<ring, pool, server, conns, mutex, arc, wire>>

----------------------------------------------------------------------------
\* Identifier algebra

\* An arc predicate that does not wrap around zero.
is_between_no_wrap(x, node1, node2) == node1 < x /\ x <= node2

\* x on the arc (node1, node2], clockwise.
is_between_on_ring(x, node1, node2) ==
    IF node1 < node2 THEN node1 < x /\ x <= node2
                     ELSE x > node1 \/ x <= node2

\* x on the arc (node1, node2), clockwise.
is_between_on_ring_exclusive(x, node1, node2) ==
    IF node1 < node2 THEN node1 < x /\ x < node2
                     ELSE x > node1 \/ x < node2

\* Start of the finger with the 1-based index `index`.
finger_id(node_id, index) == (node_id + Pow2(index - 1)) % RingSize

init_finger_table(node) ==
    [k \in 1 .. M |-> [_start |-> finger_id(node, k), node |-> node]]

----------------------------------------------------------------------------
\* Replies of remote calls and results of operations

ClientError == {"ConnectionFailed", "NotInitialized", "Unexpected"}

Ok(v) == [tag |-> "Ok", val |-> v, err |-> "none"]
Err(e) == [tag |-> "Err", val |-> <<>>, err |-> e]
NoReply == [tag |-> "None", val |-> <<>>, err |-> "none"]

\* From<ClientError> for ServiceError: Unexpected("Client error: <err>").
ServiceError(e) == [tag |-> "Err", val |-> <<>>, err |-> e]

Errors == {Err(e) : e \in ClientError}
Lists == UNION {[1 .. n -> NodeIds] : n \in 0 .. MaxList}
NodeReplies == {Ok(<<n>>) : n \in NodeIds} \cup Errors
OptionReplies == {Ok(<<>>)} \cup NodeReplies
ListReplies == {Ok(l) : l \in Lists} \cup Errors
UnitReplies == {Ok(<<>>)} \cup Errors

----------------------------------------------------------------------------
\* Node store

set_predecessor(n) == <<n>>
unset_predecessor == <<>>

\* A set_successor that stores a fresh one-element list.
set_successor_fresh(list, n) == <<n>>

set_successor(list, n) == [list EXCEPT ![1] = n]
successor == successor_list[1]

\* A set_successor_list that stores all it is given.
set_successor_list_all(capacity, list) == list

\* A set_successor_list that keeps one element fewer than fit.
set_successor_list_short(capacity, list) ==
    SubSeq(list, 1, IF Len(list) < capacity - 1 THEN Len(list) ELSE capacity - 1)

\* capacity is that of Vec::with_capacity(replication_factor)
set_successor_list(capacity, list) ==
    LET items == IF Len(list) < capacity THEN Len(list) ELSE capacity
    IN  SubSeq(list, 1, items)

update_finger(table, k, n) == [table EXCEPT ![k].node = n]

\* Index of the first finger, from the highest down to k, whose node is on
\* the arc (node_id, key); 0 when there is none.
\* A scan that stops at the lowest finger on the arc instead of the highest.
ScanFingersUp(fingers, k, node_id, key) ==
    LET on == {j \in 1 .. k : is_between_on_ring_exclusive(fingers[j].node, node_id, key)}
    IN  IF on = {} THEN 0 ELSE CHOOSE j \in on : \A h \in on : j <= h

RECURSIVE ScanFingers(_, _, _, _)
ScanFingers(fingers, k, node_id, key) ==
    IF k = 0 THEN 0
    ELSE IF is_between_on_ring_exclusive(fingers[k].node, node_id, key) THEN k
    ELSE ScanFingers(fingers, k - 1, node_id, key)

\* A closest_preceding_node that takes the arc from a node to itself as empty.
closest_preceding_node_empty_arc(fingers, node_id, key) ==
    LET k == IF node_id = key THEN 0 ELSE ScanFingers(fingers, Len(fingers), node_id, key)
    IN  IF k = 0 THEN <<>> ELSE <<fingers[k].node>>

closest_preceding_node(fingers, node_id, key) ==
    LET k == ScanFingers(fingers, Len(fingers), node_id, key)
    IN  IF k = 0 THEN <<>> ELSE <<fingers[k].node>>

Db_new(node) ==
    [predecessor |-> <<>>,
     finger_table |-> init_finger_table(node),
     successor_list |-> <<node>>]

----------------------------------------------------------------------------
\* Client pool

get_or_init(clients_held, n) == clients_held \cup {n}

\* A lookup that does not see the initialization in flight.
pool_lookup_unmarked(entry) == IF entry = "ready" THEN "cached" ELSE "init"

\* get_or_init, under the map's lock: the cached client is returned, the
\* initialization in flight is awaited, or this caller marks the key and
\* runs init.
pool_lookup(entry) ==
    CASE entry = "ready" -> "cached"
      [] entry = "init" -> "await"
      [] OTHER -> "init"

----------------------------------------------------------------------------
\* Node service: the decisions of the operations

\* A find_successor whose arc leaves the successor's own id out.
find_successor_is_local_open(key, self, succ) ==
    is_between_on_ring_exclusive(key, self, succ)

\* find_successor: the key is the responsibility of the successor.
find_successor_is_local(key, self, succ) == is_between_on_ring(key, self, succ)

\* NodeService::closest_preceding_node: the store's answer, or
\* Node::new(self.addr), the node itself, when the store has none.
service_closest_preceding_node(fingers, self, key) ==
    LET n == closest_preceding_node(fingers, self, key)
    IN  IF n = <<>> THEN self ELSE n[1]

\* A notify that accepts a candidate only when there is no predecessor.
notify_accepts_only_empty(p, node, self) == p = <<>>

\* notify: the candidate replaces the predecessor p that was read.
notify_accepts(p, node, self) ==
    p = <<>> \/ is_between_on_ring(node, p[1], self)

\* A stabilize that adopts whatever predecessor its successor reports.
stabilize_adopts_any(reply, self, succ) ==
    reply.tag = "Ok" /\ reply.val # <<>>

\* stabilize: the reply of the predecessor query is adopted as successor.
stabilize_adopts(reply, self, succ) ==
    /\ reply.tag = "Ok"
    /\ reply.val # <<>>
    /\ is_between_on_ring(reply.val[1], self, succ)

\* join: the successor list after the bootstrap peer's reply.
join_successor_list(reply, list) ==
    IF reply.tag = "Ok" THEN set_successor(list, reply.val[1]) ELSE list

\* A join that swallows the client error.
join_result_swallow(reply) == Ok(<<>>)

\* join: what it returns after the bootstrap peer's reply.
join_result(reply) ==
    IF reply.tag = "Ok" THEN Ok(<<>>) ELSE ServiceError(reply.err)

\* stabilize: what it returns after the reply to notify.
stabilize_result_swallow(reply) == Ok(<<>>)

\* stabilize: what it returns after the reply to notify (the `?` of line 147).
stabilize_result(reply) ==
    IF reply.tag = "Ok" THEN Ok(<<>>) ELSE ServiceError(reply.err)

\* A reconcile_successors that stores the remote list alone.
reconcile_list_remote_only(succ, successors_of_successor) == successors_of_successor

\* reconcile_successors: the list handed to set_successor_list.
reconcile_list(succ, successors_of_successor) == <<succ>> \o successors_of_successor

\* A check_predecessor without the ConnectionFailed arm.
ping_outcome_no_unset(reply) ==
    IF reply.tag = "Ok" THEN "alive" ELSE "error"

\* A check_predecessor that clears the predecessor whatever ping returns.
ping_outcome_always_unset(reply) == "unset"

\* A check_predecessor that takes every error for a dead predecessor.
ping_outcome_any_error(reply) ==
    IF reply.tag = "Ok" THEN "alive" ELSE "unset"

\* check_predecessor: the arm of the match on the reply of ping.
ping_outcome(reply) ==
    IF reply.tag = "Ok" THEN "alive"
    ELSE IF reply.err = "ConnectionFailed" THEN "unset"
    ELSE "error"

----------------------------------------------------------------------------
\* Tasks

\* The ring and the pool's inside, where they are not modelled.
NoRing == <<>>
NoPool == <<>>
NoServer == <<>>
NoConns == <<>>
NoMutex == <<>>
NoArc == <<>>
NoWire == <<>>

\* The server, the mutex, the predicates and the wire at rest.
NoneElse ==
    /\ server = NoServer
    /\ conns = NoConns
    /\ mutex = NoMutex
    /\ arc = NoArc
    /\ wire = NoWire

NoStore == [predecessor |-> <<>>, finger_table |-> <<>>, successor_list |-> <<>>]

CurrentStore ==
    [predecessor |-> predecessor,
     finger_table |-> finger_table,
     successor_list |-> successor_list]

IdleTask ==
    [op |-> "idle", pc |-> "idle",
     node |-> <<>>,        \* the Node argument (join, notify)
     key |-> 0,            \* the id being looked up (find_successor)
     i |-> 0,              \* fix_fingers: the loop index
     successor |-> <<>>,   \* the local `successor`
     reread |-> <<>>,      \* stabilize: the successor read again at line 134
     p |-> <<>>,           \* notify: the local `predecessor`; find_successor: `n`
     fsret |-> NoReply,    \* what the inner find_successor returned
     list |-> <<>>,        \* the list a store call was given
     sent |-> <<>>,        \* stabilize: the Node its notify carries
     lookups |-> <<>>,     \* fix_fingers: the lookups made, with what each returned
     res |-> NoReply,      \* what the operation returned
     rpcs |-> <<>>,        \* the remote calls the operation has issued
     replies |-> <<>>,     \* the replies to them, in order
     pre |-> NoStore]      \* the store when the operation was called

Call(op) == [IdleTask EXCEPT !.op = op, !.pre = CurrentStore]

Rpc(method, to) == [method |-> method, to |-> to]

Idle(t) == task[t].pc = "idle"

----------------------------------------------------------------------------
\* find_successor (service/mod.rs 60-70); also the lookup inside fix_fingers

\* What the task does when its find_successor returns r.
FsReturn(tk, r) ==
    IF tk.op = "fix_fingers"
    THEN [tk EXCEPT !.fsret = r, !.pc = "ff_202"]
    ELSE [tk EXCEPT !.fsret = r, !.res = r, !.pc = "done"]

FindSuccessorCall(t, key) ==
    /\ Idle(t)
    /\ task' = [task EXCEPT ![t] = [Call("find_successor") EXCEPT !.key = key, !.pc = "fs_61"]]
    /\ UNCHANGED <<elsewhere, id, store, clients>>

\* lines 61-63: read the successor; answer locally when the key is its own
FindSuccessorRead(t) ==
    /\ task[t].pc = "fs_61"
    /\ LET tk == [task[t] EXCEPT !.successor = <<successor>>]
       IN  task' = [task EXCEPT ![t] =
                IF find_successor_is_local(tk.key, id, successor)
                THEN FsReturn(tk, Ok(<<successor>>))
                ELSE [tk EXCEPT !.pc = "fs_65"]]
    /\ UNCHANGED <<elsewhere, id, store, clients>>

\* lines 65-67: closest preceding node, its client, the remote find_successor
FindSuccessorForward(t) ==
    /\ task[t].pc = "fs_65"
    /\ LET n == service_closest_preceding_node(finger_table, id, task[t].key)
       IN  /\ clients' = get_or_init(clients, n)
           /\ task' = [task EXCEPT ![t] =
                [@ EXCEPT !.p = <<n>>,
                          !.rpcs = Append(@, Rpc("find_successor", n)),
                          !.pc = "fs_67"]]
    /\ UNCHANGED <<elsewhere, id, store>>

\* line 67: the remote node answers
FindSuccessorReply(t, r) ==
    /\ task[t].pc = "fs_67"
    /\ r \in NodeReplies
    /\ task' = [task EXCEPT ![t] =
            FsReturn([@ EXCEPT !.replies = Append(@, r)],
                     IF r.tag = "Ok" THEN r ELSE ServiceError(r.err))]
    /\ UNCHANGED <<elsewhere, id, store, clients>>

----------------------------------------------------------------------------
\* join (service/mod.rs 88-94)

JoinCall(t, node) ==
    /\ Idle(t)
    /\ clients' = get_or_init(clients, node)
    /\ task' = [task EXCEPT ![t] =
            [Call("join") EXCEPT !.node = <<node>>,
                                 !.rpcs = <<Rpc("find_successor", node)>>,
                                 !.pc = "join_90"]]
    /\ UNCHANGED <<elsewhere, id, store>>

\* lines 90-93: the bootstrap peer answers find_successor(self.id)
JoinReply(t, r) ==
    /\ task[t].pc = "join_90"
    /\ r \in NodeReplies
    /\ successor_list' = join_successor_list(r, successor_list)
    /\ task' = [task EXCEPT ![t] =
            [@ EXCEPT !.replies = Append(@, r), !.res = join_result(r), !.pc = "done"]]
    /\ UNCHANGED <<elsewhere, id, predecessor, finger_table, clients>>

----------------------------------------------------------------------------
\* notify (service/mod.rs 104-114)

NotifyCall(t, node) ==
    /\ Idle(t)
    /\ task' = [task EXCEPT ![t] = [Call("notify") EXCEPT !.node = <<node>>, !.pc = "notify_105"]]
    /\ UNCHANGED <<elsewhere, id, store, clients>>

\* line 105
NotifyRead(t) ==
    /\ task[t].pc = "notify_105"
    /\ task' = [task EXCEPT ![t] = [@ EXCEPT !.p = predecessor, !.pc = "notify_106"]]
    /\ UNCHANGED <<elsewhere, id, store, clients>>

\* lines 106-113
NotifySet(t) ==
    /\ task[t].pc = "notify_106"
    /\ predecessor' = IF notify_accepts(task[t].p, task[t].node[1], id)
                      THEN set_predecessor(task[t].node[1])
                      ELSE predecessor
    /\ task' = [task EXCEPT ![t] = [@ EXCEPT !.res = Ok(<<>>), !.pc = "done"]]
    /\ UNCHANGED <<elsewhere, id, finger_table, successor_list, clients>>

----------------------------------------------------------------------------
\* stabilize (service/mod.rs 127-150)

\* lines 128-130: read the successor and ask it for its predecessor
StabilizeCall(t) ==
    /\ Idle(t)
    /\ clients' = get_or_init(clients, successor)
    /\ task' = [task EXCEPT ![t] =
            [Call("stabilize") EXCEPT !.successor = <<successor>>,
                                      !.rpcs = <<Rpc("predecessor", successor)>>,
                                      !.pc = "stab_130"]]
    /\ UNCHANGED <<elsewhere, id, store>>

\* lines 130-134: the reply; the successor is read again for the test
StabilizeReply(t, r) ==
    /\ task[t].pc = "stab_130"
    /\ r \in OptionReplies
    /\ task' = [task EXCEPT ![t] =
            [@ EXCEPT !.replies = Append(@, r),
                      !.reread = <<successor>>,
                      !.pc = IF stabilize_adopts(r, id, successor)
                             THEN "stab_135" ELSE "stab_139"]]
    /\ UNCHANGED <<elsewhere, id, store, clients>>

\* line 135
StabilizeSetSuccessor(t) ==
    /\ task[t].pc = "stab_135"
    /\ successor_list' = set_successor(successor_list, task[t].replies[1].val[1])
    /\ task' = [task EXCEPT ![t] = [@ EXCEPT !.pc = "stab_139"]]
    /\ UNCHANGED <<elsewhere, id, predecessor, finger_table, clients>>

\* A stabilize that notifies the successor it read before the query.
StabilizeNotifyFirstRead(t) ==
    /\ task[t].pc = "stab_139"
    /\ clients' = get_or_init(clients, task[t].successor[1])
    /\ task' = [task EXCEPT ![t] =
            [@ EXCEPT !.rpcs = Append(@, Rpc("notify", task[t].successor[1])),
                      !.sent = <<id>>,
                      !.pc = "stab_147"]]
    /\ UNCHANGED <<elsewhere, id, store>>

\* lines 139-147: read the successor and notify it
StabilizeNotify(t) ==
    /\ task[t].pc = "stab_139"
    /\ clients' = get_or_init(clients, successor)
    /\ task' = [task EXCEPT ![t] =
            [@ EXCEPT !.successor = <<successor>>,
                      !.rpcs = Append(@, Rpc("notify", successor)),
                      !.sent = <<id>>,
                      !.pc = "stab_147"]]
    /\ UNCHANGED <<elsewhere, id, store>>

\* lines 147-149
StabilizeNotifyReply(t, r) ==
    /\ task[t].pc = "stab_147"
    /\ r \in UnitReplies
    /\ task' = [task EXCEPT ![t] =
            [@ EXCEPT !.replies = Append(@, r),
                      !.res = stabilize_result(r),
                      !.pc = "done"]]
    /\ UNCHANGED <<elsewhere, id, store, clients>>

----------------------------------------------------------------------------
\* reconcile_successors (service/mod.rs 152-164)

\* lines 153-155
ReconcileCall(t) ==
    /\ Idle(t)
    /\ clients' = get_or_init(clients, successor)
    /\ task' = [task EXCEPT ![t] =
            [Call("reconcile_successors") EXCEPT
                !.successor = <<successor>>,
                !.rpcs = <<Rpc("successor_list", successor)>>,
                !.pc = "rec_155"]]
    /\ UNCHANGED <<elsewhere, id, store>>

\* lines 155-163
ReconcileReply(t, r) ==
    /\ task[t].pc = "rec_155"
    /\ r \in ListReplies
    /\ successor_list' =
            IF r.tag = "Ok"
            THEN set_successor_list(replication_factor,
                                    reconcile_list(task[t].successor[1], r.val))
            ELSE successor_list
    /\ task' = [task EXCEPT ![t] =
            [@ EXCEPT !.replies = Append(@, r),
                      !.res = IF r.tag = "Ok" THEN Ok(<<>>) ELSE ServiceError(r.err),
                      !.pc = "done"]]
    /\ UNCHANGED <<elsewhere, id, predecessor, finger_table, clients>>

----------------------------------------------------------------------------
\* check_predecessor (service/mod.rs 174-188)

\* lines 175-177, 185-187
CheckPredecessorCall(t) ==
    /\ Idle(t)
    /\ IF predecessor # <<>>
       THEN /\ clients' = get_or_init(clients, predecessor[1])
            /\ task' = [task EXCEPT ![t] =
                    [Call("check_predecessor") EXCEPT
                        !.p = predecessor,
                        !.rpcs = <<Rpc("ping", predecessor[1])>>,
                        !.pc = "chk_177"]]
       ELSE /\ clients' = clients
            /\ task' = [task EXCEPT ![t] =
                    [Call("check_predecessor") EXCEPT !.res = Ok(<<>>), !.pc = "done"]]
    /\ UNCHANGED <<elsewhere, id, store>>

\* lines 177-184
CheckPredecessorReply(t, r) ==
    /\ task[t].pc = "chk_177"
    /\ r \in UnitReplies
    /\ predecessor' = IF ping_outcome(r) = "unset" THEN unset_predecessor ELSE predecessor
    /\ task' = [task EXCEPT ![t] =
            [@ EXCEPT !.replies = Append(@, r),
                      !.res = IF ping_outcome(r) = "error"
                              THEN ServiceError(r.err) ELSE Ok(<<>>),
                      !.pc = "done"]]
    /\ UNCHANGED <<elsewhere, id, finger_table, successor_list, clients>>

----------------------------------------------------------------------------
\* fix_fingers (service/mod.rs 198-208)

FixFingersCall(t) ==
    /\ Idle(t)
    /\ task' = [task EXCEPT ![t] = [Call("fix_fingers") EXCEPT !.pc = "ff_199"]]
    /\ UNCHANGED <<elsewhere, id, store, clients>>

\* lines 199-201: the next finger, or the end of the sweep
FixFingersNext(t) ==
    /\ task[t].pc = "ff_199"
    /\ task' = [task EXCEPT ![t] =
            IF task[t].i < M
            THEN [@ EXCEPT !.key = finger_id(id, task[t].i + 1), !.pc = "fs_61"]
            ELSE [@ EXCEPT !.res = Ok(<<>>), !.pc = "done"]]
    /\ UNCHANGED <<elsewhere, id, store, clients>>

\* A fix_fingers that gives up at the first lookup that fails.
FixFingersUpdateOrAbort(t) ==
    /\ task[t].pc = "ff_202"
    /\ finger_table' =
            IF task[t].fsret.tag = "Ok"
            THEN update_finger(finger_table, task[t].i + 1, task[t].fsret.val[1])
            ELSE finger_table
    /\ task' = [task EXCEPT ![t] =
            [@ EXCEPT !.lookups = Append(@, [key |-> task[t].key, ret |-> task[t].fsret]),
                      !.i = @ + 1,
                      !.res = IF task[t].fsret.tag = "Ok" THEN @ ELSE Ok(<<>>),
                      !.pc = IF task[t].fsret.tag = "Ok" THEN "ff_199" ELSE "done"]]
    /\ UNCHANGED <<elsewhere, id, predecessor, successor_list, clients>>

\* lines 202-206: finger i (index i + 1 here) gets the node that was found
FixFingersUpdate(t) ==
    /\ task[t].pc = "ff_202"
    /\ finger_table' =
            IF task[t].fsret.tag = "Ok"
            THEN update_finger(finger_table, task[t].i + 1, task[t].fsret.val[1])
            ELSE finger_table
    /\ task' = [task EXCEPT ![t] =
            [@ EXCEPT !.lookups = Append(@, [key |-> task[t].key, ret |-> task[t].fsret]),
                      !.i = @ + 1,
                      !.pc = "ff_199"]]
    /\ UNCHANGED <<elsewhere, id, predecessor, successor_list, clients>>

----------------------------------------------------------------------------
\* The caller takes the result.
Return(t) ==
    /\ task[t].pc = "done"
    /\ task' = [task EXCEPT ![t] = IdleTask]
    /\ UNCHANGED <<elsewhere, id, store, clients>>

----------------------------------------------------------------------------
\* NodeService::new: a fresh node is its own successor.
Init ==
    /\ id \in NodeIds
    /\ predecessor = Db_new(id).predecessor
    /\ finger_table = Db_new(id).finger_table
    /\ successor_list = Db_new(id).successor_list
    /\ clients = {}
    /\ task = [t \in SeqTasks |-> IdleTask]
    /\ ring = NoRing
    /\ pool = NoPool
    /\ NoneElse

Next ==
    \E t \in SeqTasks :
        \/ \E key \in Ids : FindSuccessorCall(t, key)
        \/ FindSuccessorRead(t)
        \/ FindSuccessorForward(t)
        \/ \E r \in NodeReplies : FindSuccessorReply(t, r)
        \/ \E node \in NodeIds : JoinCall(t, node)
        \/ \E r \in NodeReplies : JoinReply(t, r)
        \/ \E node \in NodeIds : NotifyCall(t, node)
        \/ NotifyRead(t)
        \/ NotifySet(t)
        \/ StabilizeCall(t)
        \/ \E r \in OptionReplies : StabilizeReply(t, r)
        \/ StabilizeSetSuccessor(t)
        \/ StabilizeNotify(t)
        \/ \E r \in UnitReplies : StabilizeNotifyReply(t, r)
        \/ ReconcileCall(t)
        \/ \E r \in ListReplies : ReconcileReply(t, r)
        \/ CheckPredecessorCall(t)
        \/ \E r \in UnitReplies : CheckPredecessorReply(t, r)
        \/ FixFingersCall(t)
        \/ FixFingersNext(t)
        \/ FixFingersUpdate(t)
        \/ Return(t)

Spec == Init /\ [][Next]_vars

----------------------------------------------------------------------------
\* The properties of the operations

\* Steps clockwise from a to y; a full turn to come back to a itself.
Clockwise(a, y) ==
    LET d == (y - a) % RingSize IN IF d = 0 THEN RingSize ELSE d

\* x on the clockwise arc from a to b, both endpoints excluded.
OnArcOpen(x, a, b) == Clockwise(a, x) < Clockwise(a, b)

\* x on the clockwise arc from a to b, a excluded and b included.
OnArcHalfOpen(x, a, b) == Clockwise(a, x) <= Clockwise(a, b)

T == task["seq"]
Done(op) == T.op = op /\ T.pc = "done"
Pre == T.pre
StoreUnchanged == CurrentStore = Pre

\* C1: notify(c) sets the predecessor to c iff the predecessor was empty or
\* c.id is on the arc from predecessor.id to self.id, both endpoints
\* excluded; otherwise the predecessor is unchanged.  notify returns no
\* error and changes neither the successor list nor the finger table.
C1_NotifyOpenArc ==
    Done("notify") =>
        /\ predecessor =
              IF \/ Pre.predecessor = <<>>
                 \/ OnArcOpen(T.node[1], Pre.predecessor[1], id)
              THEN T.node ELSE Pre.predecessor
        /\ T.res = Ok(<<>>)
        /\ successor_list = Pre.successor_list
        /\ finger_table = Pre.finger_table

\* C2: stabilize replaces successor_list[0] by x, the predecessor its
\* successor reported, iff x is present and x.id is on the arc from self.id
\* to the id of the successor read again after the query, both endpoints
\* excluded; otherwise successor_list[0] is unchanged.
C2_StabilizeAdoptsIff ==
    (T.op = "stabilize" /\ T.pc \in {"stab_139", "stab_147", "done"}) =>
        LET r == T.replies[1]
            s == T.reread[1]
        IN  /\ s = Pre.successor_list[1]
            /\ successor_list[1] =
                  IF r.tag = "Ok" /\ r.val # <<>> /\ OnArcOpen(r.val[1], id, s)
                  THEN r.val[1] ELSE s

\* C2 happens: a stabilize has adopted a new successor.
C2_Witness ==
    /\ Done("stabilize")
    /\ successor_list[1] # Pre.successor_list[1]
    /\ Pre.successor_list[1] # id

\* C3: when id is on the arc from self.id to successor.id, successor.id
\* included, find_successor(id) returns the successor, makes no remote call
\* and changes no store state.
C3_LocalLookup ==
    (Done("find_successor") /\ OnArcHalfOpen(T.key, id, Pre.successor_list[1])) =>
        /\ T.res = Ok(<<Pre.successor_list[1]>>)
        /\ T.rpcs = <<>>
        /\ StoreUnchanged

\* C3 happens: a lookup of the successor's own id, on a node with a successor.
C3_Witness ==
    /\ Done("find_successor")
    /\ Pre.successor_list[1] # id
    /\ T.key = Pre.successor_list[1]

\* No finger node is strictly between self.id and key.
NoPrecedingFinger(fingers, key) ==
    \A k \in 1 .. Len(fingers) : ~OnArcOpen(fingers[k].node, id, key)

\* C4: when id is not in (self.id, successor.id] and no finger node is
\* strictly between self.id and id, find_successor(id) returns the local
\* successor and makes no remote call.
C4_DegenerateLookupIsLocal ==
    (/\ Done("find_successor")
     /\ ~OnArcHalfOpen(T.key, id, Pre.successor_list[1])
     /\ NoPrecedingFinger(Pre.finger_table, T.key)) =>
        /\ T.res = Ok(<<Pre.successor_list[1]>>)
        /\ T.rpcs = <<>>

\* C5: when the bootstrap peer answers find_successor(self.id) with n, join
\* returns success, successor() is n, and the predecessor, the finger table
\* and successor_list[1..] are as before the call.
C5_JoinInstallsSuccessor ==
    (Done("join") /\ T.replies[1].tag = "Ok") =>
        /\ T.res = Ok(<<>>)
        /\ T.rpcs = <<Rpc("find_successor", T.node[1])>>
        /\ successor = T.replies[1].val[1]
        /\ predecessor = Pre.predecessor
        /\ finger_table = Pre.finger_table
        /\ Tail(successor_list) = Tail(Pre.successor_list)

\* C5 happens: a join has replaced the head of a longer successor list.
C5_Witness ==
    /\ Done("join")
    /\ T.replies[1].tag = "Ok"
    /\ Len(Pre.successor_list) > 1
    /\ successor # Pre.successor_list[1]

\* C6: when the bootstrap peer's find_successor fails with a client error,
\* join returns a service error wrapping it and the store is as before the
\* call.
C6_JoinErrorLeavesStore ==
    (Done("join") /\ T.replies[1].tag = "Err") =>
        /\ T.res = ServiceError(T.replies[1].err)
        /\ T.res.tag = "Err"
        /\ StoreUnchanged

\* C6 happens: a join has failed on a node whose successor is not the
\* bootstrap peer.
C6_Witness ==
    /\ Done("join")
    /\ T.replies[1].tag = "Err"
    /\ successor # T.node[1]

\* C7: when the predecessor's ping fails with ConnectionFailed,
\* check_predecessor clears the predecessor and returns success; the
\* successor list and the finger table are unchanged.
C7_DeadPredecessorCleared ==
    (/\ Done("check_predecessor")
     /\ Pre.predecessor # <<>>
     /\ T.replies = <<Err("ConnectionFailed")>>) =>
        /\ predecessor = <<>>
        /\ T.res = Ok(<<>>)
        /\ successor_list = Pre.successor_list
        /\ finger_table = Pre.finger_table

C7_Witness ==
    /\ Done("check_predecessor")
    /\ Pre.predecessor # <<>>
    /\ T.replies = <<Err("ConnectionFailed")>>

\* C8: when the predecessor's ping succeeds, check_predecessor returns
\* success, leaves the predecessor unchanged and has pinged it once; with
\* no predecessor it returns success with no remote call and no change.
C8_LivePredecessorKept ==
    Done("check_predecessor") =>
        /\ (Pre.predecessor # <<>> /\ T.replies = <<Ok(<<>>)>>) =>
              /\ T.res = Ok(<<>>)
              /\ predecessor = Pre.predecessor
              /\ T.rpcs = <<Rpc("ping", Pre.predecessor[1])>>
              /\ StoreUnchanged
        /\ Pre.predecessor = <<>> =>
              /\ T.res = Ok(<<>>)
              /\ T.rpcs = <<>>
              /\ StoreUnchanged

C8_Witness ==
    /\ Done("check_predecessor")
    /\ Pre.predecessor # <<>>
    /\ T.replies = <<Ok(<<>>)>>

\* C9: when the predecessor's ping fails with Unexpected, check_predecessor
\* returns a service error and the predecessor is unchanged.
C9_OtherErrorSurfaced ==
    (Done("check_predecessor") /\ T.replies = <<Err("Unexpected")>>) =>
        /\ T.res = ServiceError("Unexpected")
        /\ T.res.tag = "Err"
        /\ predecessor = Pre.predecessor
        /\ predecessor # <<>>

C9_Witness ==
    /\ Done("check_predecessor")
    /\ T.replies = <<Err("Unexpected")>>

\* C10: when the predecessor's ping returns NotInitialized,
\* check_predecessor clears the predecessor and returns success, as it does
\* for ConnectionFailed.
C10_NotInitializedClears ==
    (Done("check_predecessor") /\ T.replies = <<Err("NotInitialized")>>) =>
        /\ predecessor = <<>>
        /\ T.res = Ok(<<>>)

(***************************************************************************)
(* The store alone (store.rs): every step is one call of a Db method, which *)
(* runs under the store's mutex.  The call, its arguments and the store it  *)
(* found are recorded in the task.                                          *)
(***************************************************************************)
\* The lists handed to set_successor_list: empty, short, and one longer than
\* the capacity.
StoreLists ==
    UNION {[1 .. n -> NodeIds] : n \in 0 .. (replication_factor + 1)}

DbCall(t, op) ==
    [Call(op) EXCEPT !.pc = "done"]

\* store.rs 84-89
DbSetPredecessor(t, node) ==
    /\ Idle(t)
    /\ predecessor' = set_predecessor(node)
    /\ task' = [task EXCEPT ![t] = [DbCall(t, "Db::set_predecessor") EXCEPT !.node = node]]
    /\ UNCHANGED <<elsewhere, id, finger_table, successor_list, clients>>

\* store.rs 92-97
DbUnsetPredecessor(t) ==
    /\ Idle(t)
    /\ predecessor' = unset_predecessor
    /\ task' = [task EXCEPT ![t] = DbCall(t, "Db::unset_predecessor")]
    /\ UNCHANGED <<elsewhere, id, finger_table, successor_list, clients>>

\* store.rs 110-116; successor_list[0] of an empty list panics, and the
\* process ends there.
DbSetSuccessor(t, node) ==
    /\ Idle(t)
    /\ Len(successor_list) >= 1
    /\ successor_list' = set_successor(successor_list, node)
    /\ task' = [task EXCEPT ![t] = [DbCall(t, "Db::set_successor") EXCEPT !.node = node]]
    /\ UNCHANGED <<elsewhere, id, predecessor, finger_table, clients>>

\* store.rs 132-148
DbSetSuccessorList(t, list) ==
    /\ Idle(t)
    /\ successor_list' = set_successor_list(replication_factor, list)
    /\ task' = [task EXCEPT ![t] = [DbCall(t, "Db::set_successor_list") EXCEPT !.list = list]]
    /\ UNCHANGED <<elsewhere, id, predecessor, finger_table, clients>>

\* store.rs 182-187
DbUpdateFinger(t, k, node) ==
    /\ Idle(t)
    /\ finger_table' = update_finger(finger_table, k, node)
    /\ task' = [task EXCEPT ![t] =
            [DbCall(t, "Db::update_finger") EXCEPT !.i = k, !.node = node]]
    /\ UNCHANGED <<elsewhere, id, predecessor, successor_list, clients>>

\* store.rs 167-180, called as the service calls it (mod.rs 230-231): with
\* the node's own id and the key that is looked up.
DbClosestPrecedingNode(t, key) ==
    /\ Idle(t)
    /\ task' = [task EXCEPT ![t] =
            [DbCall(t, "Db::closest_preceding_node") EXCEPT
                !.key = key,
                !.res = Ok(closest_preceding_node(finger_table, id, key))]]
    /\ UNCHANGED <<elsewhere, id, store, clients>>

NextStore ==
    \E t \in SeqTasks :
        \/ \E node \in NodeIds : DbSetPredecessor(t, node)
        \/ DbUnsetPredecessor(t)
        \/ \E node \in NodeIds : DbSetSuccessor(t, node)
        \/ \E list \in StoreLists : DbSetSuccessorList(t, list)
        \/ \E k \in 1 .. M, node \in NodeIds : DbUpdateFinger(t, k, node)
        \/ \E key \in Ids : DbClosestPrecedingNode(t, key)
        \/ Return(t)

\* The store of one node, as constructed; the keys and the nodes it is
\* given lie on both sides of it.
InitStore == Init /\ id = 2

SpecStore == InitStore /\ [][NextStore]_vars

(***************************************************************************)
(* Two operations of the node in flight at once.  The periodic loops and    *)
(* the notify handler run as separate tasks on the same store; each step    *)
(* of an operation is one store access or one reply, and the steps of the   *)
(* two tasks interleave in every order.  Each of stabilize,                 *)
(* reconcile_successors and check_predecessor is driven by one loop, so no  *)
(* two calls of the same one overlap; join has completed before the loops   *)
(* and the server start (capnp/src/lib.rs 27-31).                           *)
(***************************************************************************)
ConcTasks == {"seq", "bg"}

\* No other task is inside `op`.
Exclusive(t, op) == \A u \in ConcTasks \ {t} : task[u].op # op

\* The node after a join and any number of notifies.
InitConc ==
    /\ id \in NodeIds
    /\ predecessor \in {<<>>} \cup {<<n>> : n \in NodeIds}
    /\ finger_table = init_finger_table(id)
    /\ successor_list \in {<<n>> : n \in NodeIds}
    /\ clients = {}
    /\ task = [t \in ConcTasks |-> IdleTask]
    /\ ring = NoRing
    /\ pool = NoPool
    /\ NoneElse

NextConc ==
    \E t \in ConcTasks :
        \/ \E node \in NodeIds : NotifyCall(t, node)
        \/ NotifyRead(t)
        \/ NotifySet(t)
        \/ Exclusive(t, "stabilize") /\ StabilizeCall(t)
        \/ \E r \in OptionReplies : StabilizeReply(t, r)
        \/ StabilizeSetSuccessor(t)
        \/ StabilizeNotify(t)
        \/ \E r \in UnitReplies : StabilizeNotifyReply(t, r)
        \/ Exclusive(t, "reconcile_successors") /\ ReconcileCall(t)
        \/ \E r \in ListReplies : ReconcileReply(t, r)
        \/ Exclusive(t, "check_predecessor") /\ CheckPredecessorCall(t)
        \/ \E r \in UnitReplies : CheckPredecessorReply(t, r)

SpecConc == InitConc /\ [][NextConc]_vars

(***************************************************************************)
(* The two-node ring: node a alone, node b joined through it, each running *)
(* its stabilize loop.  Every remote call is answered by the handler of    *)
(* the node it is sent to, which works on that node's store; the steps of  *)
(* the two nodes interleave in every order.                                 *)
(***************************************************************************)
RingPairs == {pair \in NodeIds \X NodeIds : pair[1] # pair[2]}

RingIdle ==
    [pc |-> "idle",
     successor |-> <<>>,   \* the local `successor` (lines 128, 139)
     x |-> <<>>,           \* what the successor answered to predecessor()
     p |-> <<>>,           \* the predecessor the notify handler has read
     calls |-> 0]          \* the stabilize calls this node has completed

\* Node b after join(a): a is alone, its find_successor(b) answers locally
\* with its successor a, and b stores the answer.
RingJoined(a, b) ==
    [predecessor |-> Db_new(b).predecessor,
     successor_list |->
         join_successor_list(Ok(<<Db_new(a).successor_list[1]>>),
                             Db_new(b).successor_list)]

RingNodes == {ring.a, ring.b}
RingSuccessor(n) == ring.db[n].successor_list[1]

\* The two are each other's successor and predecessor.
Converged ==
    /\ RingSuccessor(ring.a) = ring.b
    /\ RingSuccessor(ring.b) = ring.a
    /\ ring.db[ring.a].predecessor = <<ring.b>>
    /\ ring.db[ring.b].predecessor = <<ring.a>>

InitRing ==
    /\ id = 0
    /\ predecessor = Db_new(0).predecessor
    /\ finger_table = Db_new(0).finger_table
    /\ successor_list = Db_new(0).successor_list
    /\ clients = {}
    /\ task = [t \in SeqTasks |-> IdleTask]
    /\ pool = NoPool
    /\ NoneElse
    /\ \E pair \in RingPairs :
          LET a == pair[1]
              b == pair[2]
          IN  /\ find_successor_is_local(b, a, Db_new(a).successor_list[1])
              /\ ring = [a |-> a,
                         b |-> b,
                         db |-> (a :> [predecessor |-> Db_new(a).predecessor,
                                       successor_list |-> Db_new(a).successor_list])
                                @@ (b :> RingJoined(a, b)),
                         stab |-> (a :> RingIdle) @@ (b :> RingIdle),
                         \* b's call in flight has run with a idle so far
                         alone |-> FALSE,
                         \* a's call in flight began after such a call of b
                         after |-> FALSE,
                         \* 1 when b has completed a call alone, 2 when a has
                         \* then begun and completed one
                         round |-> 0]

\* line 128
RingStabilizeCall(n) ==
    /\ n \in RingNodes
    /\ ring.stab[n].pc = "idle"
    /\ ring.stab[n].calls < MaxStabilize
    /\ ring' = [ring EXCEPT
            !.stab[n] = [@ EXCEPT !.pc = "stab_130",
                                  !.successor = <<RingSuccessor(n)>>,
                                  !.x = <<>>,
                                  !.p = <<>>],
            !.alone = IF n = ring.b THEN ring.stab[ring.a].pc = "idle" ELSE FALSE,
            !.after = IF n = ring.a THEN ring.round >= 1 ELSE @]
    /\ UNCHANGED <<id, store, clients, task, pool, server, conns, mutex, arc, wire>>

\* line 130: the successor's handler reads its predecessor (store.rs 100-103)
RingPredecessorReply(n) ==
    /\ n \in RingNodes
    /\ ring.stab[n].pc = "stab_130"
    /\ ring' = [ring EXCEPT
            !.stab[n] = [@ EXCEPT !.pc = "stab_134",
                                  !.x = ring.db[ring.stab[n].successor[1]].predecessor]]
    /\ UNCHANGED <<id, store, clients, task, pool, server, conns, mutex, arc, wire>>

\* lines 133-134
RingStabilizeDecide(n) ==
    /\ n \in RingNodes
    /\ ring.stab[n].pc = "stab_134"
    /\ ring' = [ring EXCEPT
            !.stab[n].pc = IF stabilize_adopts(Ok(ring.stab[n].x), n, RingSuccessor(n))
                           THEN "stab_135" ELSE "stab_139"]
    /\ UNCHANGED <<id, store, clients, task, pool, server, conns, mutex, arc, wire>>

\* line 135
RingSetSuccessor(n) ==
    /\ n \in RingNodes
    /\ ring.stab[n].pc = "stab_135"
    /\ ring' = [ring EXCEPT
            !.db[n].successor_list = set_successor(@, ring.stab[n].x[1]),
            !.stab[n].pc = "stab_139"]
    /\ UNCHANGED <<id, store, clients, task, pool, server, conns, mutex, arc, wire>>

\* lines 139-147
RingStabilizeNotify(n) ==
    /\ n \in RingNodes
    /\ ring.stab[n].pc = "stab_139"
    /\ ring' = [ring EXCEPT
            !.stab[n] = [@ EXCEPT !.pc = "stab_147",
                                  !.successor = <<RingSuccessor(n)>>]]
    /\ UNCHANGED <<id, store, clients, task, pool, server, conns, mutex, arc, wire>>

\* the successor's notify handler, line 105
RingNotifyRead(n) ==
    /\ n \in RingNodes
    /\ ring.stab[n].pc = "stab_147"
    /\ ring' = [ring EXCEPT
            !.stab[n] = [@ EXCEPT !.pc = "notify_106",
                                  !.p = ring.db[ring.stab[n].successor[1]].predecessor]]
    /\ UNCHANGED <<id, store, clients, task, pool, server, conns, mutex, arc, wire>>

\* the successor's notify handler, lines 106-113, and stabilize's return
RingNotifySet(n) ==
    /\ n \in RingNodes
    /\ ring.stab[n].pc = "notify_106"
    /\ LET to == ring.stab[n].successor[1]
       IN  ring' = [ring EXCEPT
               !.db[to].predecessor =
                   IF notify_accepts(ring.stab[n].p, n, to) THEN set_predecessor(n) ELSE @,
               !.stab[n] = [@ EXCEPT !.pc = "idle", !.calls = @ + 1],
               !.round = IF n = ring.b /\ ring.alone /\ @ = 0 THEN 1
                         ELSE IF n = ring.a /\ ring.after /\ @ = 1 THEN 2
                         ELSE @]
    /\ UNCHANGED <<id, store, clients, task, pool, server, conns, mutex, arc, wire>>

NextRing ==
    \E n \in NodeIds :
        \/ RingStabilizeCall(n)
        \/ RingPredecessorReply(n)
        \/ RingStabilizeDecide(n)
        \/ RingSetSuccessor(n)
        \/ RingStabilizeNotify(n)
        \/ RingNotifyRead(n)
        \/ RingNotifySet(n)

SpecRing == InitRing /\ [][NextRing]_vars

(***************************************************************************)
(* The client pool: tasks of the node ask it for clients at the same time. *)
(* The lookup and the marking of a key run under the map's lock; init is a *)
(* suspension point.                                                        *)
(***************************************************************************)
Callers == 1 .. NumCallers

CallerIdle == [pc |-> "idle", node |-> 0, got |-> 0, calls |-> 0]

InitPool ==
    /\ id = 0
    /\ predecessor = Db_new(0).predecessor
    /\ finger_table = Db_new(0).finger_table
    /\ successor_list = Db_new(0).successor_list
    /\ clients = {}
    /\ task = [t \in SeqTasks |-> IdleTask]
    /\ ring = NoRing
    /\ NoneElse
    /\ pool = [entry |-> [n \in NodeIds |-> "absent"],
               \* the client the map holds: the number of the init that made it
               client |-> [n \in NodeIds |-> 0],
               \* how many times init(addr) has been started
               inits |-> [n \in NodeIds |-> 0],
               caller |-> [c \in Callers |-> CallerIdle]]

\* get_or_init(node): the lookup
PoolGetOrInit(c, n) ==
    /\ pool.caller[c].pc = "idle"
    /\ pool.caller[c].calls < MaxCalls
    /\ LET found == pool_lookup(pool.entry[n])
       IN  pool' = [pool EXCEPT
               !.entry[n] = IF found = "init" THEN "init" ELSE @,
               !.inits[n] = IF found = "init" THEN @ + 1 ELSE @,
               !.caller[c] =
                   [@ EXCEPT !.pc = IF found = "cached" THEN "done" ELSE found,
                             !.node = n,
                             !.got = IF found = "cached" THEN pool.client[n] ELSE 0,
                             !.calls = @ + 1]]
    /\ UNCHANGED <<id, store, clients, task, ring, server, conns, mutex, arc, wire>>

\* init(addr) has returned: the client is stored and handed to the caller
PoolInitDone(c) ==
    /\ pool.caller[c].pc = "init"
    /\ LET n == pool.caller[c].node
       IN  pool' = [pool EXCEPT
               !.entry[n] = "ready",
               !.client[n] = pool.inits[n],
               !.caller[c] = [@ EXCEPT !.pc = "done", !.got = pool.inits[n]]]
    /\ UNCHANGED <<id, store, clients, task, ring, server, conns, mutex, arc, wire>>

\* a caller that awaited the initialization receives its client
PoolAwaited(c) ==
    /\ pool.caller[c].pc = "await"
    /\ pool.entry[pool.caller[c].node] = "ready"
    /\ pool' = [pool EXCEPT
            !.caller[c] = [@ EXCEPT !.pc = "done",
                                    !.got = pool.client[pool.caller[c].node]]]
    /\ UNCHANGED <<id, store, clients, task, ring, server, conns, mutex, arc, wire>>

PoolReturn(c) ==
    /\ pool.caller[c].pc = "done"
    /\ pool' = [pool EXCEPT !.caller[c] = [@ EXCEPT !.pc = "idle", !.got = 0]]
    /\ UNCHANGED <<id, store, clients, task, ring, server, conns, mutex, arc, wire>>

NextPool ==
    \E c \in Callers :
        \/ \E n \in NodeIds : PoolGetOrInit(c, n)
        \/ PoolInitDone(c)
        \/ PoolAwaited(c)
        \/ PoolReturn(c)

SpecPool == InitPool /\ [][NextPool]_vars

(***************************************************************************)
(* The ring predicates and the finger scan as functions: the identifiers   *)
(* and the finger table are drawn, then the functions are applied.          *)
(***************************************************************************)
\* The finger tables of node a, each finger pointing at some node.
ArcTables(a) ==
    {[k \in 1 .. M |-> [_start |-> finger_id(a, k), node |-> nodes[k]]] :
        nodes \in [1 .. M -> NodeIds]}

InitArc ==
    /\ id = 0
    /\ predecessor = Db_new(0).predecessor
    /\ finger_table = Db_new(0).finger_table
    /\ successor_list = Db_new(0).successor_list
    /\ clients = {}
    /\ task = [t \in SeqTasks |-> IdleTask]
    /\ ring = NoRing
    /\ pool = NoPool
    /\ server = NoServer
    /\ conns = NoConns
    /\ mutex = NoMutex
    /\ wire = NoWire
    /\ \E x \in Ids, a \in Ids, b \in Ids :
          \E fingers \in ArcTables(a) :
              arc = [pc |-> "drawn", x |-> x, a |-> a, b |-> b, fingers |-> fingers,
                     half_open |-> FALSE, exclusive |-> FALSE, found |-> <<>>]

\* find_successor, notify and stabilize ask the first (mod.rs 62, 107, 134),
\* closest_preceding_node the second (store.rs 174)
ArcPredicates ==
    /\ arc.pc = "drawn"
    /\ arc' = [arc EXCEPT
            !.pc = "asked",
            !.half_open = is_between_on_ring(arc.x, arc.a, arc.b),
            !.exclusive = is_between_on_ring_exclusive(arc.x, arc.a, arc.b)]
    /\ UNCHANGED <<id, store, clients, task, ring, pool, server, conns, mutex, wire>>

\* store.rs 167-180
ArcClosestPrecedingNode ==
    /\ arc.pc = "asked"
    /\ arc' = [arc EXCEPT
            !.pc = "scanned",
            !.found = closest_preceding_node(arc.fingers, arc.a, arc.b)]
    /\ UNCHANGED <<id, store, clients, task, ring, pool, server, conns, mutex, wire>>

NextArc ==
    \/ ArcPredicates
    \/ ArcClosestPrecedingNode

SpecArc == InitArc /\ [][NextArc]_vars

(***************************************************************************)
(* Socket addresses on the wire (capnp parser/node.rs): an address is       *)
(* written into an IpAddress payload and a payload, the node's own or any   *)
(* a peer sends, is read back.                                              *)
(***************************************************************************)
Ipv4Chunks == 4
Ipv6Chunks == 8
MaxChunks == 8

Octets == {0, 255}
Segments == {0, 65535}
Ports == {0, 8080, 65535}
\* flow information and scope of an IPv6 socket address
Scopes == {0, 2}

\* std::net::SocketAddr
SocketAddrV4 == [kind : {"V4"}, ip : [1 .. Ipv4Chunks -> Octets], port : Ports]
SocketAddrV6 ==
    [kind : {"V6"}, ip : [1 .. Ipv6Chunks -> Segments], port : Ports,
     flowinfo : Scopes, scope_id : Scopes]

\* SocketAddr::new(ip, port): an IPv6 address gets flow information and scope 0.
SocketAddr_new(kind, ip, port) ==
    IF kind = "V4"
    THEN [kind |-> "V4", ip |-> ip, port |-> port]
    ELSE [kind |-> "V6", ip |-> ip, port |-> port, flowinfo |-> 0, scope_id |-> 0]

\* ip_address on the wire: the union's discriminant, the list pointer of the
\* variant ("list", "null" in a message never written, "bad" for a pointer
\* that cannot be read), and the port.
NullPayload == [which |-> "ipv4", ptr |-> "null", list |-> <<>>, port |-> 0]

Payloads ==
    {NullPayload}
    \cup [which : {"ipv4"}, ptr : {"list"}, port : Ports,
          list : UNION {[1 .. n -> Octets] : n \in 0 .. MaxChunks}]
    \cup [which : {"ipv6"}, ptr : {"list"}, port : Ports,
          list : UNION {[1 .. n -> Segments] : n \in 0 .. MaxChunks}]
    \cup [which : {"ipv4", "ipv6"}, ptr : {"null", "bad"}, port : Ports, list : {<<>>}]
    \cup [which : {"NotInSchema"}, ptr : {"null"}, port : Ports, list : {<<>>}]

\* ResultBuilder<SocketAddr>::insert and ResultBuilder<IpAddr>::insert (node.rs 132-168)
insert(value) ==
    [which |-> IF value.kind = "V4" THEN "ipv4" ELSE "ipv6",
     ptr |-> "list",
     list |-> [i \in 1 .. (IF value.kind = "V4" THEN Ipv4Chunks ELSE Ipv6Chunks) |-> value.ip[i]],
     port |-> value.port]

Panicked == [tag |-> "Panic", val |-> <<>>, err |-> "none"]

\* TryFrom<ip_address::Reader> for SocketAddr (node.rs 25-76)
try_from(addr) ==
    IF addr.which = "NotInSchema" THEN Panicked
    ELSE IF addr.ptr # "list" THEN Err("InvalidIp")
    ELSE IF addr.which = "ipv4"
         THEN IF Len(addr.list) # Ipv4Chunks THEN Err("InvalidIp")
              ELSE Ok(<<SocketAddr_new("V4", [i \in 1 .. Ipv4Chunks |-> addr.list[i]], addr.port)>>)
         ELSE IF Len(addr.list) # Ipv6Chunks THEN Err("InvalidIp")
              ELSE Ok(<<SocketAddr_new("V6", [i \in 1 .. Ipv6Chunks |-> addr.list[i]], addr.port)>>)

InitWire ==
    /\ id = 0
    /\ predecessor = Db_new(0).predecessor
    /\ finger_table = Db_new(0).finger_table
    /\ successor_list = Db_new(0).successor_list
    /\ clients = {}
    /\ task = [t \in SeqTasks |-> IdleTask]
    /\ ring = NoRing
    /\ pool = NoPool
    /\ server = NoServer
    /\ conns = NoConns
    /\ mutex = NoMutex
    /\ arc = NoArc
    /\ \/ \E s \in SocketAddrV4 \cup SocketAddrV6 :
             wire = [pc |-> "local", from |-> "local", addr |-> <<s>>,
                     payload |-> NullPayload, res |-> NoReply]
       \/ \E payload \in Payloads :
             wire = [pc |-> "received", from |-> "peer", addr |-> <<>>,
                     payload |-> payload, res |-> NoReply]

\* node.rs 132-142
WireInsert ==
    /\ wire.pc = "local"
    /\ wire' = [wire EXCEPT !.pc = "received", !.payload = insert(wire.addr[1])]
    /\ UNCHANGED <<id, store, clients, task, ring, pool, server, conns, mutex, arc>>

\* node.rs 13-22, 25-76
WireTryFrom ==
    /\ wire.pc = "received"
    /\ wire' = [wire EXCEPT !.pc = "read", !.res = try_from(wire.payload)]
    /\ UNCHANGED <<id, store, clients, task, ring, pool, server, conns, mutex, arc>>

NextWire ==
    \/ WireInsert
    \/ WireTryFrom

SpecWire == InitWire /\ [][NextWire]_vars

(***************************************************************************)
(* Server::run (capnp lib.rs 39-79): the accept loop spawns one local task  *)
(* per connection; the task takes a permit of the semaphore when it first   *)
(* runs, serves the connection's RPC system and gives the permit back.      *)
(***************************************************************************)
max_connections == 2
MaxConns == 4

Conns == 1 .. MaxConns

NewConn == [st |-> "none", full_at_accept |-> FALSE, full_at_try |-> FALSE]

InitServe ==
    /\ id = 0
    /\ predecessor = Db_new(0).predecessor
    /\ finger_table = Db_new(0).finger_table
    /\ successor_list = Db_new(0).successor_list
    /\ clients = {}
    /\ task = [t \in SeqTasks |-> IdleTask]
    /\ ring = NoRing
    /\ pool = NoPool
    /\ server = NoServer
    /\ mutex = NoMutex
    /\ arc = NoArc
    /\ wire = NoWire
    \* lib.rs 46: Semaphore::new(max_connections)
    /\ conns = [permits |-> max_connections, conn |-> [c \in Conns |-> NewConn]]

\* lib.rs 49-64: accept, build the RPC system, spawn the task
ConnAccept(c) ==
    /\ conns.conn[c].st = "none"
    /\ \A d \in Conns : d < c => conns.conn[d].st # "none"
    /\ conns' = [conns EXCEPT
            !.conn[c].st = "spawned",
            !.conn[c].full_at_accept = (conns.permits = 0)]
    /\ UNCHANGED <<id, store, clients, task, ring, pool, server, mutex, arc, wire>>

\* A task that serves whether or not it got a permit.
ConnServeAlways(c) ==
    /\ conns.conn[c].st = "spawned"
    /\ conns' = [conns EXCEPT
            !.permits = IF conns.permits > 0 THEN conns.permits - 1 ELSE 0,
            !.conn[c].st = "serving",
            !.conn[c].full_at_try = (conns.permits = 0)]
    /\ UNCHANGED <<id, store, clients, task, ring, pool, server, mutex, arc, wire>>

\* lib.rs 65, 73-75: the task's first run, sem.try_acquire()
ConnTryAcquire(c) ==
    /\ conns.conn[c].st = "spawned"
    /\ conns' = [conns EXCEPT
            !.permits = IF conns.permits > 0 THEN conns.permits - 1 ELSE 0,
            !.conn[c].st = IF conns.permits > 0 THEN "serving" ELSE "dropped",
            !.conn[c].full_at_try = (conns.permits = 0)]
    /\ UNCHANGED <<id, store, clients, task, ring, pool, server, mutex, arc, wire>>

\* lib.rs 66-72: rpc_system.await ends, with or without an error; drop(aq)
ConnRpcSystemEnds(c) ==
    /\ conns.conn[c].st = "serving"
    /\ conns' = [conns EXCEPT
            !.permits = conns.permits + 1,
            !.conn[c].st = "ended"]
    /\ UNCHANGED <<id, store, clients, task, ring, pool, server, mutex, arc, wire>>

NextServe ==
    \E c \in Conns :
        \/ ConnAccept(c)
        \/ ConnTryAcquire(c)
        \/ ConnRpcSystemEnds(c)

SpecServe == InitServe /\ [][NextServe]_vars

Serving == {c \in Conns : conns.conn[c].st = "serving"}

(***************************************************************************)
(* The store's mutex (store.rs 84-203).  Every Db method takes the lock in  *)
(* shared_state() and gives it back at drop(state) or at its return.  Two   *)
(* threads call the methods; each method is cut at the lock, at every write *)
(* made while the lock is held, and at the unlock.  Between two methods a   *)
(* thread may be suspended on a remote call of the service (mod.rs 60-238). *)
(* mutex.lin is the store obtained by applying each method in one step at   *)
(* the moment it takes the lock, and exp the result it gives there.         *)
(***************************************************************************)
Threads == {"seq", "bg"}

DbReads == {"predecessor", "successor", "successor_list", "closest_preceding_node"}
DbWrites == {"set_predecessor", "unset_predecessor", "set_successor",
             "set_successor_list", "update_finger"}

\* The nodes the methods are called with.
LockNodes == {0, 2}

NoArg == [node |-> 0, list |-> <<>>, k |-> 1, key |-> 0]

\* The arguments a method is called with.
DbArgs(op) ==
    CASE op \in {"set_predecessor", "set_successor"} ->
            {[NoArg EXCEPT !.node = n] : n \in LockNodes}
      [] op = "set_successor_list" ->
            {[NoArg EXCEPT !.list = l] :
                l \in [1 .. replication_factor -> LockNodes]}
      [] op = "update_finger" ->
            {[NoArg EXCEPT !.k = k, !.node = n] : k \in 1 .. M, n \in LockNodes}
      [] op = "closest_preceding_node" ->
            {[NoArg EXCEPT !.key = key] : key \in LockNodes}
      [] OTHER -> {NoArg}

\* The method applied to a store in one step.
DbApply(op, arg, st) ==
    CASE op = "set_predecessor" -> [st EXCEPT !.predecessor = set_predecessor(arg.node)]
      [] op = "unset_predecessor" -> [st EXCEPT !.predecessor = unset_predecessor]
      [] op = "set_successor" ->
            [st EXCEPT !.successor_list = set_successor(st.successor_list, arg.node)]
      [] op = "set_successor_list" ->
            [st EXCEPT !.successor_list = set_successor_list(replication_factor, arg.list)]
      [] op = "update_finger" ->
            [st EXCEPT !.finger_table = update_finger(st.finger_table, arg.k, arg.node)]
      [] OTHER -> st

\* The result of the method on a store.
DbResult(op, arg, st, node_id) ==
    CASE op = "predecessor" -> Ok(st.predecessor)
      [] op = "successor" -> Ok(<<st.successor_list[1]>>)
      [] op = "successor_list" -> Ok(st.successor_list)
      [] op = "closest_preceding_node" ->
            Ok(closest_preceding_node(st.finger_table, node_id, arg.key))
      [] OTHER -> Ok(<<>>)

IdleThread ==
    [op |-> "idle", pc |-> "idle", arg |-> NoArg, fingers |-> <<>>,
     res |-> NoReply, exp |-> NoReply]

InitLock ==
    /\ id = 0
    /\ predecessor = Db_new(0).predecessor
    /\ finger_table = Db_new(0).finger_table
    /\ successor_list = Db_new(0).successor_list
    /\ clients = {}
    /\ task = [t \in SeqTasks |-> IdleTask]
    /\ ring = NoRing
    /\ pool = NoPool
    /\ server = NoServer
    /\ conns = NoConns
    /\ arc = NoArc
    /\ wire = NoWire
    /\ mutex = [holder |-> <<>>, lin |-> Db_new(0), th |-> [t \in Threads |-> IdleThread]]

\* store.rs 194-202: shared_state(), first statement of every method
Lock(t, op) ==
    /\ mutex.th[t].pc = "idle"
    /\ mutex.holder = <<>>
    /\ \E arg \in DbArgs(op) :
          mutex' = [mutex EXCEPT
              !.holder = <<t>>,
              !.lin = DbApply(op, arg, mutex.lin),
              !.th[t] = [IdleThread EXCEPT
                  !.op = op, !.pc = "locked", !.arg = arg,
                  !.exp = DbResult(op, arg, mutex.lin, id)]]
    /\ UNCHANGED <<id, store, clients, task, ring, pool, server, conns, arc, wire>>

\* store.rs 85-88, 93-96, 112-115, 183-186: the write of a setter and drop(state)
LockedWrite(t) ==
    /\ mutex.th[t].pc = "locked"
    /\ mutex.th[t].op \in DbWrites \ {"set_successor_list"}
    /\ LET new == DbApply(mutex.th[t].op, mutex.th[t].arg, CurrentStore)
       IN  /\ predecessor' = new.predecessor
           /\ finger_table' = new.finger_table
           /\ successor_list' = new.successor_list
    /\ mutex' = [mutex EXCEPT !.holder = <<>>, !.th[t] = IdleThread]
    /\ UNCHANGED <<id, clients, task, ring, pool, server, conns, arc, wire>>

\* store.rs 134-135: set_successor_list reads the capacity and clears the list
LockedClear(t) ==
    /\ mutex.th[t].pc = "locked"
    /\ mutex.th[t].op = "set_successor_list"
    /\ successor_list' = <<>>
    /\ mutex' = [mutex EXCEPT !.th[t].pc = "cleared"]
    /\ UNCHANGED <<id, predecessor, finger_table, clients, task, ring, pool, server, conns, arc, wire>>

\* store.rs 137-147: set_successor_list pushes the first items, drop(state)
LockedPush(t) ==
    /\ mutex.th[t].pc = "cleared"
    /\ successor_list' = set_successor_list(replication_factor, mutex.th[t].arg.list)
    /\ mutex' = [mutex EXCEPT !.holder = <<>>, !.th[t] = IdleThread]
    /\ UNCHANGED <<id, predecessor, finger_table, clients, task, ring, pool, server, conns, arc, wire>>

\* store.rs 100-103, 119-123, 151-154: a getter clones what it returns; the
\* guard is dropped at the return.  successor() of an empty list panics.
LockedRead(t) ==
    /\ mutex.th[t].pc = "locked"
    /\ mutex.th[t].op \in DbReads \ {"closest_preceding_node"}
    /\ mutex.th[t].op = "successor" => Len(successor_list) >= 1
    /\ mutex' = [mutex EXCEPT
            !.holder = <<>>,
            !.th[t].pc = "returned",
            !.th[t].res = DbResult(mutex.th[t].op, mutex.th[t].arg, CurrentStore, id)]
    /\ UNCHANGED <<id, store, clients, task, ring, pool, server, conns, arc, wire>>

\* A closest_preceding_node that keeps the lock while it scans.
LockedCloneKeep(t) ==
    /\ mutex.th[t].pc = "locked"
    /\ mutex.th[t].op = "closest_preceding_node"
    /\ mutex' = [mutex EXCEPT
            !.th[t].pc = "scanning",
            !.th[t].fingers = finger_table]
    /\ UNCHANGED <<id, store, clients, task, ring, pool, server, conns, arc, wire>>

\* store.rs 170-171: closest_preceding_node clones the fingers, drop(state)
LockedClone(t) ==
    /\ mutex.th[t].pc = "locked"
    /\ mutex.th[t].op = "closest_preceding_node"
    /\ mutex' = [mutex EXCEPT
            !.holder = <<>>,
            !.th[t].pc = "scanning",
            !.th[t].fingers = finger_table]
    /\ UNCHANGED <<id, store, clients, task, ring, pool, server, conns, arc, wire>>

\* store.rs 173-179: the scan of the cloned fingers
ScanClone(t) ==
    /\ mutex.th[t].pc = "scanning"
    /\ mutex' = [mutex EXCEPT
            !.th[t].pc = "returned",
            !.th[t].res = Ok(closest_preceding_node(mutex.th[t].fingers, id, mutex.th[t].arg.key))]
    /\ UNCHANGED <<id, store, clients, task, ring, pool, server, conns, arc, wire>>

\* the service has the getter's result
DbReturn(t) ==
    /\ mutex.th[t].pc = "returned"
    /\ mutex' = [mutex EXCEPT !.th[t] = IdleThread]
    /\ UNCHANGED <<id, store, clients, task, ring, pool, server, conns, arc, wire>>

\* mod.rs 74, 92, 130, 147, 155, 177: the service awaits a remote call
\* between two store methods
RemoteAwait(t) ==
    /\ mutex.th[t].pc = "idle"
    /\ mutex' = [mutex EXCEPT !.th[t].pc = "suspended", !.th[t].op = "remote"]
    /\ UNCHANGED <<id, store, clients, task, ring, pool, server, conns, arc, wire>>

RemoteResume(t) ==
    /\ mutex.th[t].pc = "suspended"
    /\ mutex' = [mutex EXCEPT !.th[t] = IdleThread]
    /\ UNCHANGED <<id, store, clients, task, ring, pool, server, conns, arc, wire>>

NextLock ==
    \E t \in Threads :
        \/ \E op \in DbReads \cup DbWrites : Lock(t, op)
        \/ LockedWrite(t)
        \/ LockedClear(t)
        \/ LockedPush(t)
        \/ LockedRead(t)
        \/ LockedClone(t)
        \/ ScanClone(t)
        \/ DbReturn(t)
        \/ RemoteAwait(t)
        \/ RemoteResume(t)

SpecLock == InitLock /\ [][NextLock]_vars

(***************************************************************************)
(* Startup and the maintenance loops.  Server::new (capnp lib.rs 24-37)     *)
(* builds the service, runs join_ring when a ring address is given, and     *)
(* then calls background_tasks.  join_ring and background_tasks are         *)
(* modelled from the specification: join is retried up to MAX_RETRIES       *)
(* times, and each of the four loops is one task that calls its operation   *)
(* at every tick and logs the error the operation returns.  The ticks are   *)
(* taken one at a time.  The operations are those of the service; what a    *)
(* remote call gives back depends on the client adapter.                    *)
(***************************************************************************)
MAX_RETRIES == 5

Loops == {"stabilize", "fix_fingers", "check_predecessor", "reconcile_successors"}
Adapters == {"capnp", "grpc"}

\* The remote call a task is awaiting.
AwaitedMethod(tk) ==
    CASE tk.pc \in {"join_90", "fs_67"} -> "find_successor"
      [] tk.pc = "stab_130" -> "predecessor"
      [] tk.pc = "stab_147" -> "notify"
      [] tk.pc = "rec_155" -> "successor_list"
      [] tk.pc = "chk_177" -> "ping"
      [] OTHER -> "none"

\* grpc client.rs 58-131: what a method of ChordGrpcClient can return, out
\* of the replies of its type.  successor_list returns nothing (todo!, line
\* 95); a client that is not connected gives NotInitialized (139-145); a
\* failed find_successor call gives Unexpected (62-66); the other methods
\* unwrap the call's result (103, 119, 128) and return only its success.
grpc_returns(method, all) ==
    IF method = "successor_list" THEN {}
    ELSE {r \in all :
            \/ r.tag = "Ok"
            \/ r.err = "NotInitialized"
            \/ method = "find_successor" /\ r.err = "Unexpected"}

\* grpc client.rs 73, 95, 103, 119, 128: todo!() and the unwraps
grpc_panics(method) == method \in {"find_successor", "successor_list", "predecessor", "notify", "ping"}

\* The replies the adapter in use can hand to the service.
client_returns(adapter, method, all) ==
    IF adapter = "grpc" THEN grpc_returns(method, all) ELSE all

InitBoot ==
    /\ id = 0
    /\ predecessor = Db_new(0).predecessor
    /\ finger_table = Db_new(0).finger_table
    /\ successor_list = Db_new(0).successor_list
    /\ clients = {}
    /\ task = [t \in SeqTasks |-> IdleTask]
    /\ ring = NoRing
    /\ pool = NoPool
    /\ conns = NoConns
    /\ mutex = NoMutex
    /\ arc = NoArc
    /\ wire = NoWire
    /\ \E bootstrap \in {<<>>} \cup {<<n>> : n \in NodeIds \ {0}}, adapter \in Adapters :
          server = [phase |-> IF bootstrap = <<>> THEN "spawning" ELSE "joining",
                    ring |-> bootstrap,
                    adapter |-> adapter,
                    attempts |-> 0,
                    joined |-> FALSE,
                    loop |-> [l \in Loops |-> "unspawned"]]

\* join_ring: one more attempt
BootJoinCall ==
    /\ server.phase = "joining"
    /\ server.attempts < MAX_RETRIES
    /\ JoinCall("seq", server.ring[1])

BootJoinReply ==
    /\ task["seq"].op = "join"
    /\ \E r \in client_returns(server.adapter, "find_successor", NodeReplies) :
          JoinReply("seq", r)

\* join_ring: the attempt has returned; stop at a success or at the last attempt
BootJoinReturn ==
    /\ task["seq"].op = "join"
    /\ task["seq"].pc = "done"
    /\ task' = [task EXCEPT !["seq"] = IdleTask]
    /\ server' = [server EXCEPT
            !.attempts = @ + 1,
            !.joined = (task["seq"].res.tag = "Ok"),
            !.phase = IF task["seq"].res.tag = "Ok" \/ server.attempts + 1 = MAX_RETRIES
                      THEN "spawning" ELSE "joining"]
    /\ UNCHANGED <<id, store, clients, ring, pool, conns, mutex, arc, wire>>

\* A start of the loops that does not wait for join_ring.
BootBackgroundTasksEarly ==
    /\ server.phase \in {"joining", "spawning"}
    /\ Idle("seq")
    /\ server' = [server EXCEPT !.phase = "running", !.loop = [l \in Loops |-> "alive"]]
    /\ UNCHANGED <<id, store, clients, task, ring, pool, conns, mutex, arc, wire>>

\* lib.rs 31: background_tasks, after join_ring has returned
BootBackgroundTasks ==
    /\ server.phase = "spawning"
    /\ server' = [server EXCEPT !.phase = "running", !.loop = [l \in Loops |-> "alive"]]
    /\ UNCHANGED <<id, store, clients, task, ring, pool, conns, mutex, arc, wire>>

\* A loop's tick: the loop calls its operation
LoopTick(l) ==
    /\ server.phase = "running"
    /\ server.loop[l] = "alive"
    /\ CASE l = "stabilize" -> StabilizeCall("seq")
         [] l = "fix_fingers" -> FixFingersCall("seq")
         [] l = "check_predecessor" -> CheckPredecessorCall("seq")
         [] l = "reconcile_successors" -> ReconcileCall("seq")

\* The steps of the operation between its remote calls
LoopStep ==
    /\ task["seq"].op \in Loops
    /\ \/ StabilizeSetSuccessor("seq")
       \/ StabilizeNotify("seq")
       \/ FixFingersNext("seq")
       \/ FindSuccessorRead("seq")
       \/ FindSuccessorForward("seq")
       \/ FixFingersUpdate("seq")

\* A remote call of the operation returns
LoopReply ==
    /\ task["seq"].op \in Loops
    /\ \/ \E r \in client_returns(server.adapter, "predecessor", OptionReplies) :
             StabilizeReply("seq", r)
       \/ \E r \in client_returns(server.adapter, "notify", UnitReplies) :
             StabilizeNotifyReply("seq", r)
       \/ \E r \in client_returns(server.adapter, "successor_list", ListReplies) :
             ReconcileReply("seq", r)
       \/ \E r \in client_returns(server.adapter, "ping", UnitReplies) :
             CheckPredecessorReply("seq", r)
       \/ \E r \in client_returns(server.adapter, "find_successor", NodeReplies) :
             FindSuccessorReply("seq", r)

\* The operation has returned, with or without an error; the loop logs the
\* error and waits for its next tick
LoopTickEnd ==
    /\ task["seq"].op \in Loops
    /\ Return("seq")

\* A remote call of the operation panics in the adapter: the loop's task
\* unwinds and is gone
LoopPanic ==
    /\ server.adapter = "grpc"
    /\ task["seq"].op \in Loops
    /\ grpc_panics(AwaitedMethod(task["seq"]))
    /\ task' = [task EXCEPT !["seq"] = IdleTask]
    /\ server' = [server EXCEPT !.loop[task["seq"].op] = "dead"]
    /\ UNCHANGED <<id, store, clients, ring, pool, conns, mutex, arc, wire>>

\* The remote call of join panics in the adapter: Server::new unwinds
BootPanic ==
    /\ server.adapter = "grpc"
    /\ task["seq"].op = "join"
    /\ grpc_panics(AwaitedMethod(task["seq"]))
    /\ task' = [task EXCEPT !["seq"] = IdleTask]
    /\ server' = [server EXCEPT !.phase = "panicked"]
    /\ UNCHANGED <<id, store, clients, ring, pool, conns, mutex, arc, wire>>

NextBoot ==
    \/ BootJoinCall
    \/ BootJoinReply
    \/ BootJoinReturn
    \/ BootBackgroundTasks
    \/ \E l \in Loops : LoopTick(l)
    \/ LoopStep
    \/ LoopReply
    \/ LoopTickEnd
    \/ LoopPanic
    \/ BootPanic

SpecBoot == InitBoot /\ [][NextBoot]_vars

(***************************************************************************)
(* A successor that fails.  The maintenance operations are repeated, each   *)
(* of them again and again, and every remote call succeeds, until the node  *)
(* at the head of the successor list fails while the list holds another     *)
(* node behind it.  From then on every call to the failed node gives a      *)
(* connection error.  ring.failed holds the node that has failed.           *)
(***************************************************************************)
\* What a call to a node can answer, out of the replies of its type.
FailReplies(to, all) ==
    IF to \in ring.failed THEN {Err("ConnectionFailed")} ELSE {r \in all : r.tag = "Ok"}

\* The node the task's pending call went to.
Callee(tk) == tk.rpcs[Len(tk.rpcs)].to

InitFail ==
    /\ id = 0
    /\ predecessor = Db_new(0).predecessor
    /\ finger_table = Db_new(0).finger_table
    /\ successor_list = Db_new(0).successor_list
    /\ clients = {}
    /\ task = [t \in SeqTasks |-> IdleTask]
    /\ ring = [failed |-> {}]
    /\ pool = NoPool
    /\ NoneElse

\* The successor fails for good; the next node of the list is another node
\* and goes on answering.
SuccessorFails ==
    /\ ring.failed = {}
    /\ Idle("seq")
    /\ Len(successor_list) >= 2
    /\ successor_list[1] # id
    /\ successor_list[2] \notin {id, successor_list[1]}
    /\ ring' = [failed |-> {successor_list[1]}]
    /\ UNCHANGED <<id, store, clients, task, pool, server, conns, mutex, arc, wire>>

FailStep ==
    \/ StabilizeSetSuccessor("seq")
    \/ StabilizeNotify("seq")
    \/ FixFingersNext("seq")
    \/ FindSuccessorRead("seq")
    \/ FindSuccessorForward("seq")
    \/ FixFingersUpdate("seq")
    \/ Return("seq")

FailReply ==
    /\ task["seq"].rpcs # <<>>
    /\ \/ \E r \in FailReplies(Callee(task["seq"]), OptionReplies) : StabilizeReply("seq", r)
       \/ \E r \in FailReplies(Callee(task["seq"]), UnitReplies) : StabilizeNotifyReply("seq", r)
       \/ \E r \in FailReplies(Callee(task["seq"]), ListReplies) : ReconcileReply("seq", r)
       \/ \E r \in FailReplies(Callee(task["seq"]), UnitReplies) : CheckPredecessorReply("seq", r)
       \/ \E r \in FailReplies(Callee(task["seq"]), NodeReplies) : FindSuccessorReply("seq", r)

\* An incoming notify (mod.rs 104-114) gives the node a predecessor to check.
FailNotify ==
    \/ \E node \in NodeIds : NotifyCall("seq", node)
    \/ NotifyRead("seq")
    \/ NotifySet("seq")

NextFail ==
    \/ StabilizeCall("seq")
    \/ ReconcileCall("seq")
    \/ CheckPredecessorCall("seq")
    \/ FixFingersCall("seq")
    \/ FailStep
    \/ FailReply
    \/ FailNotify
    \/ SuccessorFails

\* Every step that can be taken is taken, and each of the four operations
\* is called again and again.
SpecFail ==
    /\ InitFail
    /\ [][NextFail]_vars
    /\ WF_vars(NextFail)
    /\ SF_vars(StabilizeCall("seq"))
    /\ SF_vars(ReconcileCall("seq"))
    /\ SF_vars(CheckPredecessorCall("seq"))
    /\ SF_vars(FixFingersCall("seq"))

Min(a, b) == IF a < b THEN a ELSE b

\* C11: when the predecessor query fails with a client error, stabilize
\* leaves successor_list[0] unchanged and still sends notify to the
\* successor; stabilize returns an error iff the notify call fails, and a
\* failed notify changes no local state.
C11_QueryErrorTolerated ==
    Done("stabilize") =>
        /\ Len(T.rpcs) = 2 /\ Len(T.replies) = 2
        /\ (T.res.tag = "Err") <=> (T.replies[2].tag = "Err")
        /\ T.res.tag = "Err" => T.res = ServiceError(T.replies[2].err)
        /\ T.replies[1].tag = "Err" =>
              /\ successor = Pre.successor_list[1]
              /\ T.rpcs = <<Rpc("predecessor", successor), Rpc("notify", successor)>>
              /\ StoreUnchanged

\* C11 happens: the predecessor query and the notify have both failed.
C11_Witness ==
    /\ Done("stabilize")
    /\ T.replies[1].tag = "Err"
    /\ T.replies[2].tag = "Err"
    /\ successor # id

C15_PredecessorNotSelf == predecessor # <<id>>

\* C17: one call of fix_fingers looks up find_successor((self.id + 2^i) mod
\* 2^M) for i = 0 .. M-1 in this order, sets finger i to the result when the
\* lookup succeeds and leaves it unchanged when it fails, preserves every
\* finger's start, returns no error and changes neither the predecessor nor
\* the successor list.
C17_FixFingersSweep ==
    Done("fix_fingers") =>
        /\ T.res = Ok(<<>>)
        /\ Len(T.lookups) = M
        /\ \A k \in 1 .. M :
              /\ T.lookups[k].key = (id + Pow2(k - 1)) % RingSize
              /\ finger_table[k]._start = Pre.finger_table[k]._start
              /\ finger_table[k].node =
                    IF T.lookups[k].ret.tag = "Ok"
                    THEN T.lookups[k].ret.val[1]
                    ELSE Pre.finger_table[k].node
        /\ Len(finger_table) = M
        /\ predecessor = Pre.predecessor
        /\ successor_list = Pre.successor_list

\* C17 happens: a sweep in which a lookup has failed and a later one has
\* changed its finger.
C17_Witness ==
    /\ Done("fix_fingers")
    /\ \E k \in 1 .. (M - 1) : T.lookups[k].ret.tag = "Err"
    /\ T.lookups[M].ret.tag = "Ok"
    /\ finger_table[M].node # Pre.finger_table[M].node

\* C14: for every list L, empty and longer than r included, after
\* set_successor_list(L) the successor list is exactly the first min(|L|, r)
\* elements of L in order; the predecessor and the finger table are
\* unchanged.
C14_SetSuccessorListPrefix ==
    Done("Db::set_successor_list") =>
        /\ Len(successor_list) = Min(Len(T.list), replication_factor)
        /\ \A k \in 1 .. Len(successor_list) : successor_list[k] = T.list[k]
        /\ predecessor = Pre.predecessor
        /\ finger_table = Pre.finger_table

\* C14 happens: a list longer than r has replaced a list, with a predecessor
\* and a changed finger in the store.
C14_Witness ==
    /\ Done("Db::set_successor_list")
    /\ Len(T.list) > replication_factor
    /\ successor_list # Pre.successor_list
    /\ predecessor # <<>>
    /\ finger_table # init_finger_table(id)

\* C14 happens for the empty list too.
C14_WitnessEmpty ==
    /\ Done("Db::set_successor_list")
    /\ T.list = <<>>
    /\ successor_list = <<>>

\* The fingers whose node lies on the open arc (self_id, target_id).
FingersOnArc(fingers, self_id, target_id) ==
    {k \in 1 .. Len(fingers) : OnArcOpen(fingers[k].node, self_id, target_id)}

\* C16: closest_preceding_node(self_id, target_id) returns the node of the
\* highest-index finger whose node id lies on the open arc (self_id,
\* target_id) and is empty exactly when there is none; the id returned is
\* never self_id or target_id; the store is not modified.
C16_ClosestPrecedingNode ==
    Done("Db::closest_preceding_node") =>
        LET on == FingersOnArc(finger_table, id, T.key)
            found == T.res.val
        IN  /\ T.res.tag = "Ok"
            /\ (found = <<>>) <=> (on = {})
            /\ on # {} =>
                  /\ found = <<finger_table[CHOOSE k \in on : \A j \in on : j <= k].node>>
                  /\ found[1] # id
                  /\ found[1] # T.key
            /\ StoreUnchanged

\* C16 happens: two fingers with different nodes lie on the arc, and the
\* higher one is returned.
C16_Witness ==
    /\ Done("Db::closest_preceding_node")
    /\ \E j, k \in FingersOnArc(finger_table, id, T.key) :
          /\ j < k
          /\ finger_table[j].node # finger_table[k].node
          /\ T.res.val = <<finger_table[k].node>>

\* C20: an operation that writes to the store after awaiting a remote call
\* bases the value it writes and its decision to write on store values read
\* after that await: the list reconcile_successors stores begins with the
\* successor the store holds when it is written, the predecessor
\* check_predecessor clears is the one it pinged, and stabilize decides to
\* adopt against the successor the store holds when the reply has come.
C20_WritesUseRereadValues ==
    [][\A t \in DOMAIN task :
          /\ (task[t].pc = "rec_155" /\ task'[t].res = Ok(<<>>)) =>
                successor_list'[1] = successor_list[1]
          /\ (task[t].pc = "chk_177" /\ predecessor' # predecessor) =>
                predecessor = task[t].p
          /\ (task[t].pc = "stab_130" /\ task'[t].pc = "stab_135") =>
                OnArcHalfOpen(task'[t].replies[1].val[1], id, successor_list[1])]_vars

\* C18 as stated: in every order of the two nodes' stabilize calls, once
\* each node has completed two of them the two nodes are each other's
\* successor and predecessor, and further stabilize calls keep that state.
C18_TwoStabilizesEach ==
    (ring.stab[ring.a].calls >= 2 /\ ring.stab[ring.b].calls >= 2) => Converged

\* C18: once b has completed a stabilize call during which a had none in
\* flight, and a has then begun and completed a stabilize call, the two
\* nodes are each other's successor and predecessor, and further stabilize
\* calls, in every order, keep that state.
C18_ConvergesAfterRound ==
    ring.round = 2 => Converged

\* C18 happens: the round has been made and both nodes have stabilized
\* again since, one of them being inside a call.
C18_Witness ==
    /\ ring.round = 2
    /\ ring.stab[ring.a].calls = MaxStabilize
    /\ ring.stab[ring.b].calls >= 2
    /\ ring.stab[ring.b].pc = "notify_106"

\* C19: for concurrent get_or_init calls with the same node id, in every
\* interleaving, init runs exactly once for that id, every caller receives
\* the same shared client, later calls return the cached client without
\* another init, and no entry is ever removed from the pool.
C19_SingleFlight ==
    \A n \in NodeIds :
        /\ pool.inits[n] <= 1
        /\ pool.inits[n] = 1 <=> pool.entry[n] # "absent"
        /\ \A c \in Callers :
              (pool.caller[c].pc = "done" /\ pool.caller[c].node = n) =>
                  /\ pool.entry[n] = "ready"
                  /\ pool.caller[c].got = 1
                  /\ pool.caller[c].got = pool.client[n]

\* C19 happens: a caller that ran init, one that awaited it and one on its
\* second call hold the same client.
C19_Witness ==
    \E n \in NodeIds :
        \E c, d, e \in Callers :
            /\ c # d /\ d # e /\ c # e
            /\ \A k \in {c, d, e} :
                  /\ pool.caller[k].pc = "done"
                  /\ pool.caller[k].node = n
                  /\ pool.caller[k].got = pool.client[n]
            /\ pool.caller[e].calls = 2
            /\ pool.inits[n] = 1

\* C28: every completed stabilize call sends exactly one notify, carrying
\* the node itself, to the node that is successor_list[0] when the store is
\* read again after the predecessor query: the successor just adopted when
\* one was adopted, the old one otherwise, whether the query returned a
\* node, none, or failed.
C28_OneNotifyToSuccessor ==
    Done("stabilize") =>
        LET r == T.replies[1]
            adopted == /\ r.tag = "Ok"
                       /\ r.val # <<>>
                       /\ OnArcHalfOpen(r.val[1], id, Pre.successor_list[1])
        IN  /\ Cardinality({k \in 1 .. Len(T.rpcs) : T.rpcs[k].method = "notify"}) = 1
            /\ T.rpcs[Len(T.rpcs)] =
                  Rpc("notify", IF adopted THEN r.val[1] ELSE Pre.successor_list[1])
            /\ T.rpcs[Len(T.rpcs)].to = successor
            /\ T.sent = <<id>>

\* C28 happens: a stabilize that adopted a new successor has notified it,
\* and the notify has failed.
C28_Witness ==
    /\ Done("stabilize")
    /\ T.replies[1].tag = "Ok"
    /\ successor # Pre.successor_list[1]
    /\ T.rpcs[2].to = successor
    /\ T.res.tag = "Err"

\* C30: check_predecessor clears the predecessor only if the node whose
\* ping failed is still the stored predecessor at the moment of clearing: a
\* predecessor that a notify installed while the ping was in flight is not
\* erased.
C30_ClearsOnlyThePingedNode ==
    [][\A t \in DOMAIN task :
          (/\ task[t].op = "check_predecessor"
           /\ task[t].pc = "chk_177"
           /\ task'[t].pc = "done"
           /\ predecessor # <<>>
           /\ predecessor' = <<>>) =>
              predecessor[1] = task[t].rpcs[1].to]_vars

\* C25: for all identifiers x, a, b with a # b, between_half_open(x, a, b)
\* equals between_exclusive(x, a, b) or x = b.
C25_HalfOpenIsExclusiveOrEnd ==
    (arc.pc # "drawn" /\ arc.a # arc.b) =>
        (arc.half_open <=> (arc.exclusive \/ arc.x = arc.b))

\* C25 happens: an arc that wraps around zero, asked about its end.
C25_Witness ==
    /\ arc.pc # "drawn"
    /\ arc.a > arc.b
    /\ arc.x = arc.b
    /\ arc.half_open
    /\ ~arc.exclusive

\* C26: for all identifiers x and a, between_exclusive(x, a, a) is true iff
\* x # a; hence closest_preceding_node(self_id, self_id) returns the
\* highest-index finger whose node is not the node itself.
C26_ArcFromNodeToItself ==
    (arc.a = arc.b) =>
        /\ arc.pc # "drawn" => (arc.exclusive <=> arc.x # arc.a)
        /\ arc.pc = "scanned" =>
              LET others == {k \in 1 .. M : arc.fingers[k].node # arc.a}
              IN  arc.found =
                      IF others = {} THEN <<>>
                      ELSE <<arc.fingers[CHOOSE k \in others : \A j \in others : j <= k].node>>

\* C26 happens: the highest finger points at the node itself and a lower
\* one at another node, which is returned.
C26_Witness ==
    /\ arc.pc = "scanned"
    /\ arc.a = arc.b
    /\ arc.fingers[M].node = arc.a
    /\ arc.found # <<>>
    /\ arc.found[1] # arc.a
    /\ arc.exclusive

\* C27: decode(encode(s)) = s for every valid socket address s, IPv4 and
\* IPv6, port preserved; a payload whose IPv4 list has a length other than
\* 4, whose IPv6 list has a length other than 8, or with neither variant
\* set is rejected with InvalidIp and yields no address.
C27_RoundTripAndRejection ==
    (wire.pc = "read") =>
        /\ wire.from = "local" => wire.res = Ok(wire.addr)
        /\ (\/ wire.payload.ptr = "null"
            \/ wire.payload.which = "ipv4" /\ Len(wire.payload.list) # Ipv4Chunks
            \/ wire.payload.which = "ipv6" /\ Len(wire.payload.list) # Ipv6Chunks)
           /\ wire.payload.which # "NotInSchema"
                => wire.res = Err("InvalidIp")

\* C23: at any instant the number of connections being served is at most
\* max_connections; a connection accepted while all permits are held is
\* dropped without being served (it is not queued); a permit is released
\* when its connection's RPC system ends, so a later connection can be served.
C23_DroppedIfFullAtAccept ==
    /\ Cardinality(Serving) <= max_connections
    /\ conns.permits = max_connections - Cardinality(Serving)
    /\ \A c \in Conns :
          conns.conn[c].full_at_accept => conns.conn[c].st \in {"spawned", "dropped"}

\* C23, amended: the permit is asked for when the connection's task first
\* runs, not at accept: a connection whose task finds all permits held is
\* dropped without being served, any other is served at once; at most
\* max_connections are being served and every permit not held by a
\* connection being served is free.
C23_DroppedIfFullAtFirstRun ==
    /\ Cardinality(Serving) <= max_connections
    /\ conns.permits = max_connections - Cardinality(Serving)
    /\ \A c \in Conns :
          /\ conns.conn[c].st = "dropped" <=> conns.conn[c].full_at_try
          /\ conns.conn[c].st \in {"serving", "ended"} =>
                ~conns.conn[c].full_at_try

\* C23 happens: all permits were held, one connection was dropped, another
\* ended, and a later connection is being served.
C23_Witness ==
    \E c, d, e \in Conns :
        /\ conns.conn[c].st = "dropped"
        /\ conns.conn[d].st = "ended"
        /\ d < c /\ c < e
        /\ conns.conn[e].st = "serving"
        /\ Cardinality(Serving) = max_connections

\* C24: the store mutex is held only for the duration of one store
\* operation and never while a task is suspended on a remote call or while
\* the cloned finger table is being scanned; consequently any concurrent
\* execution of store operations is linearizable: whenever the lock is free
\* the store is what the operations applied one at a time give, and every
\* operation returns what it gives in that order.
C24_LockScopeAndLinearizable ==
    /\ \A t \in Threads :
          /\ mutex.holder = <<t>> <=> mutex.th[t].pc \in {"locked", "cleared"}
          /\ mutex.th[t].pc \in {"suspended", "scanning"} => mutex.holder # <<t>>
          /\ mutex.th[t].pc = "returned" => mutex.th[t].res = mutex.th[t].exp
    /\ mutex.holder = <<>> => CurrentStore = mutex.lin

\* C24 happens: one thread scans its clone of the finger table, which
\* another method has changed since, while the other thread holds the lock
\* in the middle of set_successor_list.
C24_Witness ==
    /\ mutex.th["seq"].pc = "scanning"
    /\ mutex.th["seq"].fingers # finger_table
    /\ mutex.th["bg"].pc = "cleared"
    /\ mutex.holder = <<"bg">>

\* C21: when a bootstrap address is given, no maintenance task runs before
\* the join phase has ended; the join phase makes at most 5 attempts and
\* stops at the first success; if all attempts fail the node still starts
\* its maintenance tasks, as a single-node ring with successor = self and
\* no predecessor.
C21_JoinBeforeMaintenance ==
    (server.ring # <<>>) =>
        /\ (T.op \in Loops \/ \E l \in Loops : server.loop[l] # "unspawned") =>
                server.phase = "running"
        /\ server.attempts + (IF T.op = "join" THEN 1 ELSE 0) <= MAX_RETRIES
        /\ T.op = "join" => ~server.joined
        /\ server.phase = "joining" => ~server.joined /\ server.attempts < MAX_RETRIES
        /\ server.phase \in {"spawning", "running"} =>
                (server.joined \/ server.attempts = MAX_RETRIES)
        /\ (server.phase = "spawning" /\ ~server.joined) =>
                /\ successor_list = <<id>>
                /\ predecessor = <<>>
                /\ ENABLED BootBackgroundTasks

\* C21 happens: five attempts have failed and a maintenance operation runs.
C21_Witness ==
    /\ server.ring # <<>>
    /\ ~server.joined
    /\ server.attempts = MAX_RETRIES
    /\ server.phase = "running"
    /\ T.op = "stabilize"
    /\ T.pre.successor_list = <<id>>

\* C22: each of the four maintenance loops keeps ticking: an error in one
\* tick terminates neither that loop nor the others; after a failing tick
\* the loop is there to call its operation again.
C22_LoopsKeepTicking ==
    (server.phase = "running") =>
        \A l \in Loops : server.loop[l] = "alive"

\* C29: once the node at successor_list[0] has become unreachable for good
\* while the list holds another, reachable node, then under fair repetition
\* of the maintenance operations successor_list[0] eventually is a reachable
\* node.
C29_SuccessorRecovers ==
    (ring.failed # {}) ~> (successor_list[1] \notin ring.failed)

\* C31: in every interleaving of the stabilize and reconcile_successors
\* tasks of one node, with no join in progress, each change of
\* successor_list[0] from s to s' has s' on the clockwise arc from the node
\* to s, s included: a successor adopted by stabilize is never overwritten
\* by an older, farther one.
C31_SuccessorNeverMovesAway ==
    [][(/\ \A t \in DOMAIN task : task[t].op # "join"
        /\ successor_list # <<>>
        /\ successor_list' # <<>>
        /\ successor_list'[1] # successor_list[1]) =>
            OnArcHalfOpen(successor_list'[1], id, successor_list[1])]_vars

\* C33: in every interleaving of concurrent notify calls on one node, with
\* no check_predecessor running, each change of the predecessor from p to q
\* has q strictly on the clockwise arc from p to the node: after concurrent
\* notify(a) and notify(b) the predecessor is never the farther candidate
\* when the closer one was also offered.  The candidates and predecessors
\* here are nodes other than the node itself.
C33_PredecessorOnlyMovesCloser ==
    [][(/\ \A t \in DOMAIN task : task[t].op # "check_predecessor"
        /\ predecessor # <<>>
        /\ predecessor' # <<>>
        /\ predecessor' # predecessor
        /\ predecessor[1] # id
        /\ predecessor'[1] # id) =>
            OnArcOpen(predecessor'[1], predecessor[1], id)]_vars

\* C32: for every id and every reachable node state, a node that has just
\* joined and whose fingers all still point at itself included,
\* find_successor(id) never sends a find_successor request to the node it
\* runs on (so that, every remote call being answered, it returns after
\* finitely many hops).
C32_LookupNeverCallsItself ==
    T.op = "find_successor" =>
        \A k \in 1 .. Len(T.rpcs) :
            T.rpcs[k].method = "find_successor" => T.rpcs[k].to # id

(***************************************************************************)
(* The gRPC adapter: the clients the pool holds are ChordGrpcClient, whose  *)
(* connection is attempted once, in init.  Peers come up and go down while  *)
(* the node runs.                                                           *)
(***************************************************************************)
GrpcMethods == {"find_successor", "successor", "successor_list", "predecessor", "notify", "ping"}

\* What the peer does with a request: it answers with a node, answers with
\* no node, or the call fails in the transport.
GrpcAnswers == {"node", "none", "error"}

Panic == [tag |-> "Panic", val |-> <<>>, err |-> "none"]

\* grpc client.rs 26-30: the guard holds no connection
ClientGuard_new == <<>>

\* grpc client.rs 35-56: the connection is attempted; its error is logged
\* and dropped, its success is put in the guard; the client is returned
ChordGrpcClient_init(addr, connected) ==
    [client |-> IF connected THEN <<addr>> ELSE ClientGuard_new]

\* grpc client.rs 139-145, with the check left out
ChordGrpcClient_client_unchecked(c) == Ok(c.client)

\* grpc client.rs 139-145
ChordGrpcClient_client(c) ==
    IF c.client # <<>> THEN Ok(c.client) ELSE Err("NotInitialized")

\* grpc client.rs 58-131: what a method returns, and whether it has sent its
\* request, when the peer's answer to a request would be `answer`
ChordGrpcClient_call(method, c, answer) ==
    LET g == ChordGrpcClient_client(c)
        returned ==
            CASE method = "find_successor" ->
                    IF answer = "error" THEN Err("Unexpected")
                    ELSE IF answer = "none" THEN Panic ELSE Ok(c.client)
              [] method = "successor" ->
                    IF answer = "error" THEN Panic
                    ELSE IF answer = "none" THEN Err("Unexpected") ELSE Ok(c.client)
              [] method = "predecessor" ->
                    IF answer = "error" THEN Panic
                    ELSE IF answer = "none" THEN Ok(<<>>) ELSE Ok(c.client)
              [] OTHER ->
                    IF answer = "error" THEN Panic ELSE Ok(<<>>)
    IN  IF method = "successor_list" THEN [sent |-> FALSE, res |-> Panic]
        ELSE IF g.tag = "Err" THEN [sent |-> FALSE, res |-> g]
        ELSE [sent |-> TRUE, res |-> returned]

NoCall == [method |-> "none", to |-> 0, connected |-> FALSE, sent |-> FALSE, res |-> NoReply]

InitGrpc ==
    /\ id = 0
    /\ predecessor = Db_new(0).predecessor
    /\ finger_table = Db_new(0).finger_table
    /\ successor_list = Db_new(0).successor_list
    /\ clients = {}
    /\ task = [t \in SeqTasks |-> IdleTask]
    /\ NoneElse
    \* the peers that accept connections and answer
    /\ ring \in [up : SUBSET NodeIds]
    \* the pool's map (no entry, or the client), and the last call made
    /\ pool = [map |-> [n \in NodeIds |-> <<>>], last |-> NoCall]

PeerUp(n) ==
    /\ n \notin ring.up
    /\ ring' = [ring EXCEPT !.up = @ \cup {n}]
    /\ UNCHANGED <<id, store, clients, task, pool, server, conns, mutex, arc, wire>>

PeerDown(n) ==
    /\ n \in ring.up
    /\ ring' = [ring EXCEPT !.up = @ \ {n}]
    /\ UNCHANGED <<id, store, clients, task, pool, server, conns, mutex, arc, wire>>

\* get_or_init(n) on a node the pool has no client for: init(addr) runs and
\* its client is stored
GrpcGetOrInit(n) ==
    /\ pool.map[n] = <<>>
    /\ LET c == ChordGrpcClient_init(n, n \in ring.up)
       IN  pool' = [pool EXCEPT
               !.map[n] = <<c>>,
               !.last = [method |-> "init", to |-> n, connected |-> c.client # <<>>,
                         sent |-> FALSE, res |-> NoReply]]
    /\ clients' = get_or_init(clients, n)
    /\ UNCHANGED <<id, store, task, ring, server, conns, mutex, arc, wire>>

\* get_or_init(n) hands out the stored client, and a method is called on it
GrpcCall(n, method, answer) ==
    /\ pool.map[n] # <<>>
    /\ n \notin ring.up => answer = "error"
    /\ LET c == pool.map[n][1]
           r == ChordGrpcClient_call(method, c, answer)
       IN  pool' = [pool EXCEPT
               !.last = [method |-> method, to |-> n, connected |-> c.client # <<>>,
                         sent |-> r.sent, res |-> r.res]]
    /\ UNCHANGED <<id, store, clients, task, ring, server, conns, mutex, arc, wire>>

NextGrpc ==
    \E n \in NodeIds :
        \/ PeerUp(n)
        \/ PeerDown(n)
        \/ GrpcGetOrInit(n)
        \/ \E method \in GrpcMethods : \E answer \in GrpcAnswers : GrpcCall(n, method, answer)

SpecGrpc == InitGrpc /\ [][NextGrpc]_vars

\* C34: in the gRPC adapter init(addr) yields a client even when the
\* connection attempt fails; a client whose attempt failed answers
\* find_successor, successor, predecessor, notify and ping with
\* NotInitialized without sending a request; it never connects again and
\* the pool never drops it, so it stays so while the node runs.
C34_FailedClientStaysNotInitialized ==
    [][/\ pool'.last.method = "init" => pool'.map[pool'.last.to] # <<>>
       /\ (/\ pool'.last.method \in GrpcMethods \ {"successor_list"}
           /\ pool'.map[pool'.last.to][1].client = <<>>) =>
               /\ ~pool'.last.sent
               /\ pool'.last.res = Err("NotInitialized")
       /\ \A n \in NodeIds :
            (pool.map[n] # <<>> /\ pool.map[n][1].client = <<>>) =>
                pool'.map[n] = pool.map[n]]_vars

\* a client whose connection attempt failed has answered NotInitialized to a
\* peer that is up by now
C34_Witness ==
    /\ pool.last.method = "ping"
    /\ pool.last.to \in ring.up
    /\ pool.map[pool.last.to] # <<>>
    /\ pool.map[pool.last.to][1].client = <<>>
    /\ pool.last.res = Err("NotInitialized")

====
